---- MODULE Spec2Model ----
(***************************************************************************)
(* EIP-712 wallet authentication (evmauth/eip712-authn-ts).                *)
(*                                                                         *)
(* Two state machines are modelled:                                        *)
(*   - the stateless challenge protocol of src/server/auth-server.ts       *)
(*     (createChallenge / verifyChallenge), checked under ServerSpec;      *)
(*   - the wallet session of src/client/wallet-connector.ts                *)
(*     (WalletConnector), checked under WalletSpec.                        *)
(*                                                                         *)
(* JavaScript values are modelled as follows.  A string is a TLA+ string;  *)
(* an object is a function from its property names, so that a missing      *)
(* property is a name outside DOMAIN; a JWT string is the sequence of its  *)
(* dot-separated segments.                                                 *)
(***************************************************************************)
EXTENDS Integers, Sequences, FiniteSets, Bags, TLC

\* ------------------------------------------------------------------------
\* Bounds of the model
\* ------------------------------------------------------------------------

\* The clock (seconds) runs from 0 to MaxTime.
MaxTime == 3

\* Time-to-live values handed to createChallenge are 1..MaxTtl (or none).
MaxTtl == 2

\* ------------------------------------------------------------------------
\* JavaScript values
\* ------------------------------------------------------------------------

\* The value of a missing property.
UNDEFINED == "<undefined>"

\* obj.f exists (and, for the objects of this model, is then truthy).
HasField(obj, f) == f \in DOMAIN obj

\* The object {}.
EmptyObject == [f \in {} |-> UNDEFINED]

\* obj.f for an object-valued property (a missing one reads as undefined,
\* which has no properties).
ObjectProp(obj, f) == IF HasField(obj, f) THEN obj[f] ELSE EmptyObject

\* null / undefined passed where an object is expected.
NullObject == [nullish |-> TRUE]

IsNullish(obj) == HasField(obj, "nullish")

\* !s for a string s.
Falsy(s) == s \in {UNDEFINED, ""}

\* The account addresses of the model, each in the spellings a 20-byte
\* address can take: all lower case, EIP-55 checksum case, all upper case
\* digits, and a mixed-case spelling whose checksum is wrong.
AddressTable ==
    { [ lower    |-> "0xabcdef0123456789abcdef0123456789abcdef01",
        checksum |-> "0xabCDeF0123456789AbcdEf0123456789aBCDEF01",
        upper    |-> "0xABCDEF0123456789ABCDEF0123456789ABCDEF01",
        badsum   |-> "0xAbcdef0123456789abcdef0123456789abcdef01" ],
      [ lower    |-> "0x71c7656ec7ab88b098defb751b7401b5f6d8976f",
        checksum |-> "0x71C7656EC7ab88b098defB751B7401B5f6d8976F",
        upper    |-> "0x71C7656EC7AB88B098DEFB751B7401B5F6D8976F",
        badsum   |-> "0x71c7656EC7ab88b098defB751B7401B5f6d8976F" ] }

Spellings(r) == {r.lower, r.checksum, r.upper, r.badsum}

\* String.prototype.toLowerCase on the strings of the model.
toLowerCase(s) ==
    IF \E r \in AddressTable : s \in Spellings(r)
    THEN (CHOOSE r \in AddressTable : s \in Spellings(r)).lower
    ELSE s

\* ethers.isAddress: a 0x-prefixed 40-digit hex string that is all lower
\* case, all upper case, or mixed case with a correct EIP-55 checksum.
isAddress(s) == \E r \in AddressTable : s \in {r.lower, r.checksum, r.upper}

\* ------------------------------------------------------------------------
\* TokenService: jsonwebtoken
\* ------------------------------------------------------------------------

ServerSecret == "server-secret"
WrongSecret  == "wrong-secret"

JwtHeader == [alg |-> "HS256", typ |-> "JWT"]

\* The HMAC of a token's header and payload under a secret, as an ideal
\* MAC: equal exactly when payload and secret are equal.
Hmac(payload, secret) == [key |-> secret, over |-> payload]

\* jwt.sign(payload, secret, {expiresIn}) at time clock: the claims get
\* iat = clock and exp = clock + expiresIn.
jwtSign(payload, secret, expiresIn, clock) ==
    LET claims == [address |-> payload.address, iat |-> clock,
                   exp |-> clock + expiresIn]
    IN  <<JwtHeader, claims, Hmac(claims, secret)>>

\* A jwt.verify that still accepts a token in the second of its expiry.
jwtVerifyThroughExpiry(token, secret, clock) ==
    IF Len(token) # 3 THEN [threw |-> TRUE, payload |-> EmptyObject]
    ELSE IF token[3] # Hmac(token[2], secret)
         THEN [threw |-> TRUE, payload |-> EmptyObject]
    ELSE IF clock > token[2].exp
         THEN [threw |-> TRUE, payload |-> EmptyObject]
    ELSE [threw |-> FALSE, payload |-> token[2]]

\* jwt.verify(token, secret) at time clock: throws on a string that is not
\* three segments, on a signature that does not match, and on
\* clock >= exp; otherwise returns the payload.
jwtVerify(token, secret, clock) ==
    IF Len(token) # 3 THEN [threw |-> TRUE, payload |-> EmptyObject]
    ELSE IF token[3] # Hmac(token[2], secret)
         THEN [threw |-> TRUE, payload |-> EmptyObject]
    ELSE IF clock >= token[2].exp
         THEN [threw |-> TRUE, payload |-> EmptyObject]
    ELSE [threw |-> FALSE, payload |-> token[2]]

\* ------------------------------------------------------------------------
\* SignatureRecovery: ethers.verifyTypedData
\* ------------------------------------------------------------------------

\* The EIP-712 hash of (domain, types, value), as an ideal hash.
TypedDataHash(domain, types, value) == <<domain, types, value>>

\* The address a signature over some other payload recovers to.
StrangerAddress == "0x5aAeb6053F3E94C9b9A09f33669435E7Ef1BeAed"

\* verifyTypedData(domain, types, value, signature): throws on a malformed
\* signature; otherwise returns the address string of the signing key when
\* the signature is over this payload, and an unrelated address when not.
verifyTypedData(domain, types, value, signature) ==
    IF ~signature.wellFormed THEN [threw |-> TRUE, address |-> UNDEFINED]
    ELSE IF signature.over = TypedDataHash(domain, types, value)
         THEN [threw |-> FALSE, address |-> signature.by]
    ELSE [threw |-> FALSE, address |-> StrangerAddress]

\* A signature over the envelope by the key whose recovered address string
\* is `by` (what the wallet's eth_signTypedData_v4 produces).
SignatureBy(by, envelope) ==
    [wellFormed |-> TRUE, by |-> by,
     over |-> TypedDataHash(envelope.domain,
                            [Authentication |-> envelope.types.Authentication],
                            envelope.message)]

\* A well-formed signature over something else, and a malformed one.
SignatureOverOther == [wellFormed |-> TRUE, by |-> StrangerAddress, over |-> <<>>]
MalformedSignature == [wellFormed |-> FALSE, by |-> UNDEFINED, over |-> <<>>]

\* ------------------------------------------------------------------------
\* ChallengeIssuer: createChallenge
\* ------------------------------------------------------------------------

AuthenticationTypes == <<[name |-> "challenge", type |-> "string"]>>

EIP712DomainTypes ==
    << [name |-> "name", type |-> "string"],
       [name |-> "version", type |-> "string"],
       [name |-> "chainId", type |-> "uint256"] >>

\* An optional argument: <<>> when the caller leaves it out, <<v>> when the
\* caller passes v.
Omitted == <<>>

Given(v) == <<v>>

\* A parameter declared as `expiresIn = 30`.
DefaultExpiresIn == 30

OrDefault(argument, default) ==
    IF argument = Omitted THEN default ELSE argument[1]

\* createChallenge with the token's life fixed at the default.
createChallengeDefaultLife(address, jwtSecret, domain, expiresIn, clock) ==
    LET token == jwtSign([address |-> address], jwtSecret,
                         DefaultExpiresIn, clock)
    IN  [ domain      |-> domain,
          types       |-> [EIP712Domain |-> EIP712DomainTypes,
                           Authentication |-> AuthenticationTypes],
          primaryType |-> "Authentication",
          message     |-> [challenge |-> token] ]

createChallenge(address, jwtSecret, domain, expiresIn, clock) ==
    LET token == jwtSign([address |-> address], jwtSecret,
                         OrDefault(expiresIn, DefaultExpiresIn), clock)
    IN  [ domain      |-> domain,
          types       |-> [EIP712Domain |-> EIP712DomainTypes,
                           Authentication |-> AuthenticationTypes],
          primaryType |-> "Authentication",
          message     |-> [challenge |-> token] ]

\* The configuration an AuthServer is constructed with.
AuthServerConfig(jwtSecret, appName, appVersion) ==
    [jwtSecret |-> jwtSecret, appName |-> appName, appVersion |-> appVersion]

\* AuthServer.createChallenge(address, networkId, expiresIn = 30)
AuthServerCreateChallenge(config, address, networkId, expiresIn, clock) ==
    createChallenge(address, config.jwtSecret,
                    [name |-> config.appName, version |-> config.appVersion,
                     chainId |-> networkId],
                    Given(OrDefault(expiresIn, DefaultExpiresIn)), clock)

\* ------------------------------------------------------------------------
\* ChallengeVerifier: verifyChallenge
\* ------------------------------------------------------------------------

\* The outcome of a call: the value returned, or the error thrown, and the
\* external capabilities the call invoked, in order.
Return(value, calls) == [outcome |-> "returned", value |-> value, calls |-> calls]
Throw(error, calls)  == [outcome |-> error, value |-> UNDEFINED, calls |-> calls]

\* Variant: only the message is checked.
MissingMessageOnly(unsigned) ==
    \/ IsNullish(unsigned)
    \/ ~HasField(unsigned, "message")

\* !unsigned?.domain || !unsigned?.message
MissingDomainOrMessage(unsigned) ==
    \/ IsNullish(unsigned)
    \/ ~HasField(unsigned, "domain")
    \/ ~HasField(unsigned, "message")

\* Variant: jwt.verify with {ignoreExpiration: true}.
DecodeChallengeIgnoreExpiration(unsigned, jwtSecret, clock) ==
    IF ~HasField(unsigned.message, "challenge")
    THEN [threw |-> TRUE, payload |-> EmptyObject]
    ELSE LET token == unsigned.message.challenge IN
         IF Len(token) # 3 \/ token[3] # Hmac(token[2], jwtSecret)
         THEN [threw |-> TRUE, payload |-> EmptyObject]
         ELSE [threw |-> FALSE, payload |-> token[2]]

\* Variant: jwt.decode, which checks no signature and no expiry.
DecodeChallengeUnverified(unsigned, jwtSecret, clock) ==
    IF ~HasField(unsigned.message, "challenge")
    THEN [threw |-> TRUE, payload |-> EmptyObject]
    ELSE LET token == unsigned.message.challenge IN
         IF Len(token) # 3
         THEN [threw |-> TRUE, payload |-> EmptyObject]
         ELSE [threw |-> FALSE, payload |-> token[2]]

\* jwt.verify(unsigned.message.challenge, jwtSecret) inside try/catch
DecodeChallenge(unsigned, jwtSecret, clock) ==
    IF ~HasField(unsigned.message, "challenge")
    THEN [threw |-> TRUE, payload |-> EmptyObject]
    ELSE jwtVerify(unsigned.message.challenge, jwtSecret, clock)

\* payload?.address
ExpectedAddress(payload) ==
    IF HasField(payload, "address") THEN payload.address ELSE UNDEFINED

\* !expectedAddress || !isAddress(expectedAddress)
InvalidExpectedAddress(expectedAddress) ==
    Falsy(expectedAddress) \/ ~isAddress(expectedAddress)

\* Variant: the argument object is built before the try block, so the
\* TypeError of a missing unsigned.types escapes.
RecoverSignerUnguarded(unsigned, signed) ==
    IF ~HasField(unsigned, "types")
    THEN [error |-> "TypeError", address |-> UNDEFINED, called |-> FALSE]
    ELSE LET r == verifyTypedData(
                      ObjectProp(unsigned, "domain"),
                      [Authentication |->
                          IF HasField(unsigned.types, "Authentication")
                          THEN unsigned.types.Authentication ELSE <<>>],
                      unsigned.message, signed)
         IN  IF r.threw
             THEN [error |-> "InvalidSignatureError", address |-> UNDEFINED,
                   called |-> TRUE]
             ELSE [error |-> "", address |-> r.address, called |-> TRUE]

\* The try block around verifyTypedData: evaluating
\* unsigned.types.Authentication throws a TypeError inside the block when
\* unsigned.types is missing, and the catch turns every throw into
\* InvalidSignatureError.
RecoverSigner(unsigned, signed) ==
    IF ~HasField(unsigned, "types")
    THEN [error |-> "InvalidSignatureError", address |-> UNDEFINED, called |-> FALSE]
    ELSE LET r == verifyTypedData(
                      ObjectProp(unsigned, "domain"),
                      [Authentication |->
                          IF HasField(unsigned.types, "Authentication")
                          THEN unsigned.types.Authentication ELSE <<>>],
                      unsigned.message, signed)
         IN  IF r.threw
             THEN [error |-> "InvalidSignatureError", address |-> UNDEFINED,
                   called |-> TRUE]
             ELSE [error |-> "", address |-> r.address, called |-> TRUE]

\* !signerAddress || !isAddress(signerAddress)
InvalidSignerAddress(signerAddress) ==
    Falsy(signerAddress) \/ ~isAddress(signerAddress)

\* Variant: signerAddress !== expectedAddress
AddressMismatchCaseSensitive(signerAddress, expectedAddress) ==
    signerAddress # expectedAddress

\* Variant: signerAddress.toLowerCase() !== signerAddress.toLowerCase()
AddressMismatchSelf(signerAddress, expectedAddress) ==
    toLowerCase(signerAddress) # toLowerCase(signerAddress)

\* signerAddress.toLowerCase() !== expectedAddress.toLowerCase()
AddressMismatch(signerAddress, expectedAddress) ==
    toLowerCase(signerAddress) # toLowerCase(expectedAddress)

\* Variant: return expectedAddress
AuthenticatedAddressFromToken(signerAddress, expectedAddress) == expectedAddress

\* return signerAddress
AuthenticatedAddress(signerAddress, expectedAddress) == signerAddress

\* Variant: the signer is recovered before the token is decoded.
verifyChallengeRecoverFirst(unsigned, signed, jwtSecret, clock) ==
    IF MissingDomainOrMessage(unsigned)
    THEN Throw("InvalidMessageError", <<>>)
    ELSE
    LET recovered == RecoverSigner(unsigned, signed)
        calls == IF recovered.called THEN <<"verifyTypedData">> ELSE <<>>
    IN
    IF recovered.error # ""
    THEN Throw(recovered.error, calls)
    ELSE
    LET signerAddress == recovered.address IN
    IF InvalidSignerAddress(signerAddress)
    THEN Throw("InvalidSignatureError", calls)
    ELSE
    LET decoded == DecodeChallenge(unsigned, jwtSecret, clock)
        calls2 == calls \o <<"jwt.verify">>
    IN
    IF decoded.threw
    THEN Throw("InvalidJWTError", calls2)
    ELSE
    LET expectedAddress == ExpectedAddress(decoded.payload) IN
    IF InvalidExpectedAddress(expectedAddress)
    THEN Throw("InvalidJWTError", calls2)
    ELSE IF AddressMismatch(signerAddress, expectedAddress)
    THEN Throw("SignatureMismatchError", calls2)
    ELSE Return(AuthenticatedAddress(signerAddress, expectedAddress), calls2)

verifyChallenge(unsigned, signed, jwtSecret, clock) ==
    IF MissingDomainOrMessage(unsigned)
    THEN Throw("InvalidMessageError", <<>>)
    ELSE
    LET decoded == DecodeChallenge(unsigned, jwtSecret, clock) IN
    IF decoded.threw
    THEN Throw("InvalidJWTError", <<"jwt.verify">>)
    ELSE
    LET expectedAddress == ExpectedAddress(decoded.payload) IN
    IF InvalidExpectedAddress(expectedAddress)
    THEN Throw("InvalidJWTError", <<"jwt.verify">>)
    ELSE
    LET recovered == RecoverSigner(unsigned, signed)
        calls == IF recovered.called THEN <<"jwt.verify", "verifyTypedData">>
                 ELSE <<"jwt.verify">>
    IN
    IF recovered.error # ""
    THEN Throw(recovered.error, calls)
    ELSE
    LET signerAddress == recovered.address IN
    IF InvalidSignerAddress(signerAddress)
    THEN Throw("InvalidSignatureError", calls)
    ELSE IF AddressMismatch(signerAddress, expectedAddress)
    THEN Throw("SignatureMismatchError", calls)
    ELSE Return(AuthenticatedAddress(signerAddress, expectedAddress), calls)

\* ------------------------------------------------------------------------
\* The challenge protocol as a state machine
\* ------------------------------------------------------------------------

VARIABLES
    now,           \* the clock, in seconds
    challenge,     \* the challenge in flight: <<>> or <<its issue record>>
    verification   \* the verifyChallenge call being answered: <<>> or
                   \* <<its record>>

serverVars == <<now, challenge, verification>>

\* The wallet session's state (described with WalletConnector below).
VARIABLES
    providers,          \* this.providers, in order
    selectedProvider,   \* this.selectedProvider: a provider detail or null
    address,            \* this.address: a string or null
    cleanupListeners,   \* this.cleanupListeners: a closure or null
    providerListeners,  \* the handlers registered on the providers, in order
    localStorage,       \* the keys walletAddress and walletProviderUuid
    pending,            \* the calls suspended at an await
    fired,              \* the notifications of the last step, in order
    outcome             \* how the last completed call ended

walletVars ==
    <<providers, selectedProvider, address, cleanupListeners,
      providerListeners, localStorage, pending, fired, outcome>>

\* The page the connector runs in, and the callers of the connector
\* (described with the registry and the change listeners below).
VARIABLES
    window,     \* the page: listeners for announcements, queued timer
                \* tasks, request broadcasts dispatched so far
    returned,   \* the arrays getProviders() has handed out, in order
    addressChangeListeners,       \* this.addressChangeListeners
    providerChangeListeners,      \* this.providerChangeListeners
    providerListChangeListeners,  \* this.providerListChangeListeners
    disposers,  \* the disposers handed out, each with whether it was called
    invoked,    \* the listener calls of the last step, in order
    auth        \* the authenticateWithWallet() call of the AuthClient

registryVars == <<window, returned>>

listenerVars ==
    <<addressChangeListeners, providerChangeListeners,
      providerListChangeListeners, disposers>>

connectorVars == <<walletVars, registryVars, listenerVars, invoked, auth>>

\* What the methods of the session neither read nor write.
elsewhere == <<serverVars, registryVars, listenerVars, auth>>

vars == <<serverVars, connectorVars>>

\* The address strings handed to createChallenge (it validates nothing):
\* every spelling of one account, the checksum spelling of another, and
\* strings that are no address.
IssueAddresses ==
    { "0xabcdef0123456789abcdef0123456789abcdef01",
      "0xabCDeF0123456789AbcdEf0123456789aBCDEF01",
      "0xABCDEF0123456789ABCDEF0123456789ABCDEF01",
      "0xAbcdef0123456789abcdef0123456789abcdef01",
      "0x71C7656EC7ab88b098defB751B7401B5f6d8976F",
      "not-an-address", "" }

Domains ==
    { [name |-> "App", version |-> "1", chainId |-> 1],
      [name |-> "App", version |-> "1", chainId |-> 137] }

\* The strings signature recovery may return for a well-formed signature:
\* the checksum spelling of the signing account (what ethers returns), a
\* lower-case spelling, and a string that is no address.
RecoveredStrings ==
    {r.checksum : r \in AddressTable}
        \cup {"0xabcdef0123456789abcdef0123456789abcdef01", "invalid-address"}

WithToken(envelope, token) ==
    [envelope EXCEPT !.message = [challenge |-> token]]

Without(envelope, field) ==
    [f \in DOMAIN envelope \ {field} |-> envelope[f]]

\* The token of an envelope re-signed under another secret.
Forged(token) == <<token[1], token[2], Hmac(token[2], WrongSecret)>>

\* The token of an envelope with its claims altered after issuance, the
\* signature segment kept.
AlteredExpiry(token) ==
    <<token[1], [token[2] EXCEPT !.exp = MaxTime + 1], token[3]>>

AlteredAddress(token) ==
    <<token[1],
      [token[2] EXCEPT !.address = "0x71C7656EC7ab88b098defB751B7401B5f6d8976F"],
      token[3]>>

NotAToken == <<"invalid-jwt-token">>

Replacements(token) ==
    {Forged(token), AlteredExpiry(token), AlteredAddress(token), NotAToken}

\* What may reach the verifier while `envelopes` are in flight: an issued
\* envelope as it is, with its token replaced, or with a property removed;
\* or something that is no envelope.
Received(envelopes) ==
    {EmptyObject, NullObject}
    \cup envelopes
    \cup UNION { { WithToken(e, t) : t \in Replacements(e.message.challenge) } :
                 e \in envelopes }
    \cup { Without(e, f) : e \in envelopes,
           f \in {"domain", "message", "types"} }
    \cup { [e EXCEPT !.message = EmptyObject] : e \in envelopes }

IsComplete(envelope) ==
    /\ ~IsNullish(envelope)
    /\ {"domain", "message", "types"} \subseteq DOMAIN envelope

\* The signatures that may accompany `unsigned`.
Signatures(unsigned, envelopes) ==
    {SignatureOverOther, MalformedSignature}
    \cup { SignatureBy(by, e) :
             by \in RecoveredStrings,
             e \in {x \in envelopes \cup {unsigned} : IsComplete(x)} }

ServerInit ==
    /\ now = 0
    /\ challenge = <<>>
    /\ verification = <<>>

\* Time passes between calls (the calls themselves are synchronous).
Tick ==
    /\ verification = <<>>
    /\ now < MaxTime
    /\ now' = now + 1
    /\ UNCHANGED <<challenge, verification, connectorVars>>

\* The time-to-live arguments of the model: left out, or 1..MaxTtl.
TtlArguments == {Omitted} \cup {Given(t) : t \in 1..MaxTtl}

\* The server of the model, and the network ids it is asked for.
Config == AuthServerConfig(ServerSecret, "App", "1")

NetworkIds == {1, 137}

\* What is kept of a call that issued `envelope`: the address it was for,
\* the life of its token, the time of the call.
IssueRecord(account, expiresIn, envelope) ==
    [ address   |-> account,
      expiresIn |-> OrDefault(expiresIn, DefaultExpiresIn),
      issuedAt  |-> now,
      envelope  |-> envelope ]

\* createChallenge(account, ServerSecret, domain, expiresIn)
IssuedFor(account, domain, expiresIn) ==
    /\ verification = <<>>
    /\ challenge' =
          << IssueRecord(account, expiresIn,
                         createChallenge(account, ServerSecret, domain,
                                         expiresIn, now)) >>
    /\ UNCHANGED <<now, verification, connectorVars>>

Issue ==
    \E account \in IssueAddresses, domain \in Domains,
       expiresIn \in TtlArguments :
        IssuedFor(account, domain, expiresIn)

\* new AuthServer(Config).createChallenge(account, networkId, expiresIn)
ServerIssuedFor(account, networkId, expiresIn) ==
    /\ verification = <<>>
    /\ challenge' =
          << IssueRecord(account, expiresIn,
                         AuthServerCreateChallenge(Config, account, networkId,
                                                   expiresIn, now)) >>
    /\ UNCHANGED <<now, verification, connectorVars>>

ServerIssue ==
    \E account \in IssueAddresses, networkId \in NetworkIds,
       expiresIn \in TtlArguments :
        ServerIssuedFor(account, networkId, expiresIn)

InFlight == {challenge[i].envelope : i \in 1..Len(challenge)}

\* AuthServer.verifyChallenge / verifyChallenge: the call runs to its end.
Verify ==
    \E unsigned \in Received(InFlight) :
    \E signed \in Signatures(unsigned, InFlight) :
        /\ verification = <<>>
        /\ verification' =
              << [ unsigned |-> unsigned,
                   signed   |-> signed,
                   at       |-> now,
                   result   |-> verifyChallenge(unsigned, signed,
                                                ServerSecret, now) ] >>
        /\ UNCHANGED <<now, challenge, connectorVars>>

\* The caller has the outcome of the call; the server keeps nothing of it.
Respond ==
    /\ verification # <<>>
    /\ verification' = <<>>
    /\ UNCHANGED <<now, challenge, connectorVars>>

\* Verifications of the pair a caller holds, after the first.
MaxReplays == 1

\* A server that accepts a pair once: a pair that verified before is
\* refused.
AuthServerVerifyChallengeOnce(config, unsigned, signed, clock) ==
    IF \E i \in 1..Len(verification) :
           /\ verification[i].unsigned = unsigned
           /\ verification[i].signed = signed
           /\ verification[i].result.outcome = "returned"
    THEN Throw("InvalidJWTError", <<>>)
    ELSE verifyChallenge(unsigned, signed, config.jwtSecret, clock)

\* AuthServer.verifyChallenge(message, signedMessage)
AuthServerVerifyChallenge(config, unsigned, signed, clock) ==
    verifyChallenge(unsigned, signed, config.jwtSecret, clock)

\* Time-to-live arguments that give the token no life: 0 and a negative
\* number of seconds, which jwt.sign takes as they are.
LifelessTtls == {Given(0), Given(0 - MaxTtl)}

\* createChallenge(account, ServerSecret, domain, expiresIn) with a
\* time-to-live of 0 or less.
IssueLifeless ==
    \E account \in IssueAddresses, domain \in Domains,
       expiresIn \in LifelessTtls :
        IssuedFor(account, domain, expiresIn)

\* A caller presents the envelope it was issued, as it is, with a
\* signature.
Present ==
    \E unsigned \in InFlight :
    \E signed \in Signatures(unsigned, InFlight) :
        /\ verification = <<>>
        /\ verification' =
              << [ unsigned |-> unsigned,
                   signed   |-> signed,
                   at       |-> now,
                   result   |-> AuthServerVerifyChallenge(
                                    Config, unsigned, signed, now) ] >>
        /\ UNCHANGED <<now, challenge, connectorVars>>

\* The caller presents again the pair of the call answered before: the
\* server runs verifyChallenge on it at the current time.
Replay ==
    /\ verification # <<>>
    /\ Len(verification) <= MaxReplays
    /\ verification' =
          Append(verification,
                 [ unsigned |-> verification[1].unsigned,
                   signed   |-> verification[1].signed,
                   at       |-> now,
                   result   |-> AuthServerVerifyChallenge(
                                    Config, verification[1].unsigned,
                                    verification[1].signed, now) ])
    /\ UNCHANGED <<now, challenge, connectorVars>>

\* Time passes while the caller holds the pair.
Elapse ==
    /\ verification # <<>>
    /\ now < MaxTime
    /\ now' = now + 1
    /\ UNCHANGED <<challenge, verification, connectorVars>>

\* Another challenge is issued while the caller holds the pair.
Reissue ==
    /\ verification # <<>>
    /\ challenge # <<>>
    /\ \E account \in {"0x71C7656EC7ab88b098defB751B7401B5f6d8976F"} :
          /\ challenge[1].address # account
          /\ challenge' =
                << IssueRecord(account, Omitted,
                               AuthServerCreateChallenge(
                                   Config, account,
                                   challenge[1].envelope.domain.chainId,
                                   Omitted, now)) >>
    /\ UNCHANGED <<now, verification, connectorVars>>

\* ------------------------------------------------------------------------
\* WalletSession: WalletConnector
\* ------------------------------------------------------------------------

\* Calls of connect()/reconnect() that may be suspended at the same time.
MaxPending == 1

\* Handler sets that may be attached to providers at the same time.
MaxHandlerSets == 2

\* null where a string is expected.
NULL == "<null>"

\* The provider details wallets announce (EIP-6963): info and the
\* EIP-1193 provider object.
AnnouncedDetails ==
    { [info |-> [uuid |-> "p1"], provider |-> "walletA"],
      [info |-> [uuid |-> "p2"], provider |-> "walletB"] }

\* The account lists a provider may answer or announce.
AccountLists ==
    { <<>>,
      <<"0xabCDeF0123456789AbcdEf0123456789aBCDEF01">>,
      <<"0x71C7656EC7ab88b098defB751B7401B5f6d8976F",
        "0xabCDeF0123456789AbcdEf0123456789aBCDEF01">> }

NoStorage == [walletAddress |-> NULL, walletProviderUuid |-> NULL]

\* How the last step ended: the public method or provider event it was, how
\* it ended, the value it resolved to or the message it threw, the provider
\* detail it concerned, what the provider answered to the request
\* ("accounts", "result" or "error"), the account list it answered or
\* announced, the walletAddress the store held when the connect() made by
\* reconnect() resumed, the parameters of the request sent, the number
\* getChainId() resolved to, whether reconnect() waited for providers, and
\* whether the answer to connect() arrived right after a disconnect() made
\* while connect() awaited it.
NoOutcome ==
    [op |-> "", status |-> "", value |-> NULL, detail |-> NullObject,
     response |-> "", accounts |-> <<>>, persisted |-> NULL,
     params |-> <<>>, chainId |-> 0, waited |-> FALSE, late |-> FALSE]

\* Storage.setItem throws (QuotaExceededError) when the store cannot take the
\* write: at no write, or at the write of the named key.
StorageFailures == {"none", "walletAddress"}

\* No authenticateWithWallet() call has been made: the step the call is
\* at, the address requestChallenge() read, the calls of the client's
\* methods it made, the requests those sent, and how it ended.
NoAuth ==
    [pc |-> "idle", address |-> NULL, calls |-> <<>>, sent |-> <<>>,
     status |-> "", error |-> ""]

\* The fields of the connector that its methods and handlers read and
\* change, with the notifications made and the listener calls they led to.
Session ==
    [ address           |-> address,
      selectedProvider  |-> selectedProvider,
      cleanupListeners  |-> cleanupListeners,
      providerListeners |-> providerListeners,
      localStorage      |-> localStorage,
      providers         |-> providers,
      addressChangeListeners      |-> addressChangeListeners,
      providerChangeListeners     |-> providerChangeListeners,
      providerListChangeListeners |-> providerListChangeListeners,
      fired             |-> <<>>,
      invoked           |-> <<>>,
      threw             |-> FALSE ]

\* provider.on(eventName, callback)
on(registry, provider, eventName, callback) ==
    Append(registry,
           [provider |-> provider, event |-> eventName, handler |-> callback])

\* provider.removeListener(eventName, callback)
removeListener(registry, provider, eventName, callback) ==
    SelectSeq(registry,
              LAMBDA l : l # [provider |-> provider, event |-> eventName,
                              handler |-> callback])

\* The handler sets in use, and the identity of a new set of closures.
HandlerSets(registry) == {registry[i].handler : i \in 1..Len(registry)}

NewHandlers(registry) ==
    CHOOSE n \in 1..(MaxHandlerSets + 1) : n \notin HandlerSets(registry)

\* The functions callers register as change listeners.
Callbacks == {"f", "g"}

\* listener(value): the call of one listener, with the address or the
\* provider detail it is handed.
Invocation(listener, kind, addressArg, providerArg) ==
    [listener |-> listener, kind |-> kind, address |-> addressArg,
     provider |-> providerArg]

\* A loop that calls each distinct function once.
invokeEachDistinct(listeners, kind, addressArg, providerArg) ==
    LET firsts == SelectSeq([i \in 1..Len(listeners) |->
                                IF \E j \in 1..(i - 1) :
                                       listeners[j] = listeners[i]
                                THEN "" ELSE listeners[i]],
                            LAMBDA l : l # "")
    IN  [i \in 1..Len(firsts) |->
            Invocation(firsts[i], kind, addressArg, providerArg)]

\* for (const listener of listeners) listener(value)
invokeEach(listeners, kind, addressArg, providerArg) ==
    [i \in 1..Len(listeners) |->
        Invocation(listeners[i], kind, addressArg, providerArg)]

notifyAddressChanged(st) ==
    [st EXCEPT
        !.fired = Append(@, [kind |-> "addressChanged", value |-> st.address]),
        !.invoked = @ \o invokeEach(st.addressChangeListeners,
                                    "addressChanged", st.address, NullObject)]

notifyProviderChanged(st) ==
    [st EXCEPT
        !.fired = Append(@, [kind |-> "providerChanged",
                             value |-> IF st.selectedProvider = NullObject
                                       THEN NULL
                                       ELSE st.selectedProvider.info.uuid]),
        !.invoked = @ \o invokeEach(st.providerChangeListeners,
                                    "providerChanged", NULL,
                                    st.selectedProvider)]

\* A notification that hands over the selected provider.
notifyProviderListChangedSelected(st, providerDetail) ==
    [st EXCEPT
        !.fired = Append(@, [kind |-> "providerListChanged",
                             value |-> providerDetail.info.uuid]),
        !.invoked = @ \o invokeEach(st.providerListChangeListeners,
                                    "providerListChanged", NULL,
                                    st.selectedProvider)]

notifyProviderListChanged(st, providerDetail) ==
    [st EXCEPT
        !.fired = Append(@, [kind |-> "providerListChanged",
                             value |-> providerDetail.info.uuid]),
        !.invoked = @ \o invokeEach(st.providerListChangeListeners,
                                    "providerListChanged", NULL,
                                    providerDetail)]

\* setupProviderListeners registering no disconnect handler.
setupProviderListenersNoDisconnect(st, provider) ==
    LET h == NewHandlers(st.providerListeners) IN
    [st EXCEPT
        !.providerListeners =
            on(on(@, provider, "accountsChanged", h),
               provider, "chainChanged", h),
        !.cleanupListeners = [provider |-> provider, handlers |-> h]]

\* setupProviderListeners(provider): three new closures are registered and
\* this.cleanupListeners is replaced by the closure that removes them.
setupProviderListeners(st, provider) ==
    LET h == NewHandlers(st.providerListeners) IN
    [st EXCEPT
        !.providerListeners =
            on(on(on(@, provider, "accountsChanged", h),
                  provider, "chainChanged", h),
               provider, "disconnect", h),
        !.cleanupListeners = [provider |-> provider, handlers |-> h]]

\* this.cleanupListeners()
runCleanup(registry, cleanup) ==
    removeListener(
        removeListener(
            removeListener(registry, cleanup.provider, "accountsChanged",
                           cleanup.handlers),
            cleanup.provider, "chainChanged", cleanup.handlers),
        cleanup.provider, "disconnect", cleanup.handlers)

\* A disconnect() that resets the session and leaves the provider's
\* handlers attached.
disconnectKeepsListeners(st) ==
    notifyProviderChanged(notifyAddressChanged(
        [st EXCEPT !.cleanupListeners = NullObject,
                   !.address = NULL,
                   !.selectedProvider = NullObject,
                   !.localStorage = NoStorage]))

\* disconnect()
disconnect(st) ==
    LET cleaned ==
            IF st.cleanupListeners # NullObject
            THEN [st EXCEPT
                    !.providerListeners = runCleanup(@, st.cleanupListeners),
                    !.cleanupListeners = NullObject]
            ELSE st
        reset == [cleaned EXCEPT !.address = NULL,
                                 !.selectedProvider = NullObject,
                                 !.localStorage = NoStorage]
    IN  notifyProviderChanged(notifyAddressChanged(reset))

\* localStorage.setItem(key, value): the write, or the exception; after an
\* exception the rest of the block does not run.
setItem(st, key, value, failing) ==
    IF st.threw \/ failing = key
    THEN [st EXCEPT !.threw = TRUE]
    ELSE [st EXCEPT !.localStorage[key] = value]

\* connect(provider) keeping a persisted walletAddress as the address.
connectResolvedTrustsPersisted(st, provider, accounts, failing) ==
    IF Len(accounts) > 0
    THEN LET s1 == [st EXCEPT
                      !.address = IF st.localStorage.walletAddress # NULL
                                  THEN st.localStorage.walletAddress
                                  ELSE accounts[1],
                      !.selectedProvider = provider]
             s2 == setupProviderListeners(s1, provider.provider)
             s3 == setItem(s2, "walletAddress", s2.address, failing)
             s4 == setItem(s3, "walletProviderUuid", provider.info.uuid,
                           failing)
         IN  IF s4.threw THEN s4
             ELSE notifyProviderChanged(notifyAddressChanged(s4))
    ELSE st

\* connect(provider) treating an empty account list as the end of the
\* session.
connectResolvedEmptyDisconnects(st, provider, accounts, failing) ==
    IF Len(accounts) > 0
    THEN LET s1 == [st EXCEPT !.address = accounts[1],
                              !.selectedProvider = provider]
             s2 == setupProviderListeners(s1, provider.provider)
             s3 == setItem(s2, "walletAddress", s2.address, failing)
             s4 == setItem(s3, "walletProviderUuid", provider.info.uuid,
                           failing)
         IN  IF s4.threw THEN s4
             ELSE notifyProviderChanged(notifyAddressChanged(s4))
    ELSE disconnect(st)

\* connect(provider), after eth_requestAccounts resolved with `accounts`:
\* the body of the try block.  An exception of setItem leaves the block at
\* that statement, for the catch clause to rethrow.
connectResolved(st, provider, accounts, failing) ==
    IF Len(accounts) > 0
    THEN LET s1 == [st EXCEPT !.address = accounts[1],
                              !.selectedProvider = provider]
             s2 == setupProviderListeners(s1, provider.provider)
             s3 == setItem(s2, "walletAddress", s2.address, failing)
             s4 == setItem(s3, "walletProviderUuid", provider.info.uuid,
                           failing)
         IN  IF s4.threw THEN s4
             ELSE notifyProviderChanged(notifyAddressChanged(s4))
    ELSE st

\* handleAccountsChanged notifying on every non-empty list.
handleAccountsChangedAlwaysNotifies(st, accounts) ==
    IF ~accounts.isArray THEN st
    ELSE IF Len(accounts.list) = 0 THEN disconnect(st)
    ELSE notifyAddressChanged([st EXCEPT !.address = accounts.list[1]])

\* handleAccountsChanged
handleAccountsChanged(st, accounts) ==
    IF ~accounts.isArray THEN st
    ELSE IF Len(accounts.list) = 0 THEN disconnect(st)
    ELSE IF st.address # accounts.list[1]
    THEN notifyAddressChanged([st EXCEPT !.address = accounts.list[1]])
    ELSE st

\* handleChainChanged
handleChainChanged(st) == notifyAddressChanged(st)

\* handleDisconnect
handleDisconnect(st) == disconnect(st)

\* One registered handler runs.
runHandler(st, eventName, payload) ==
    IF eventName = "accountsChanged" THEN handleAccountsChanged(st, payload)
    ELSE IF eventName = "chainChanged" THEN handleChainChanged(st)
    ELSE handleDisconnect(st)

\* The provider emits an event: the handlers registered for it when the
\* event is emitted run one after the other, in registration order.
RECURSIVE runHandlers(_, _, _, _)
runHandlers(st, n, eventName, payload) ==
    IF n = 0 THEN st
    ELSE runHandlers(runHandler(st, eventName, payload), n - 1,
                     eventName, payload)

Registered(registry, provider, eventName) ==
    SelectSeq(registry,
              LAMBDA l : l.provider = provider /\ l.event = eventName)

\* The session's fields become those of st.
Becomes(st) ==
    /\ address' = st.address
    /\ selectedProvider' = st.selectedProvider
    /\ cleanupListeners' = st.cleanupListeners
    /\ providerListeners' = st.providerListeners
    /\ localStorage' = st.localStorage
    /\ fired' = st.fired
    /\ invoked' = st.invoked


\* What the persisted store may hold when the page loads: nothing; the two
\* keys an earlier page load's connect() wrote, for a wallet that announces
\* itself again or for one that no longer does; or walletAddress alone,
\* which is what connect() leaves when its second write throws.
PersistedAtLoad ==
    { NoStorage,
      [walletAddress |-> "0xabCDeF0123456789AbcdEf0123456789aBCDEF01",
       walletProviderUuid |-> "p1"],
      [walletAddress |-> "0xabCDeF0123456789AbcdEf0123456789aBCDEF01",
       walletProviderUuid |-> "p3"],
      [walletAddress |-> "0xabCDeF0123456789AbcdEf0123456789aBCDEF01",
       walletProviderUuid |-> NULL] }

\* The state after the field initializers: nothing discovered, nothing
\* connected, no listener registered.
WalletInit ==
    /\ auth = NoAuth
    /\ returned = <<>>
    /\ addressChangeListeners = <<>>
    /\ providerChangeListeners = <<>>
    /\ providerListChangeListeners = <<>>
    /\ disposers = EmptyBag
    /\ invoked = <<>>
    /\ providers = <<>>
    /\ selectedProvider = NullObject
    /\ address = NULL
    /\ cleanupListeners = NullObject
    /\ providerListeners = <<>>
    /\ localStorage \in PersistedAtLoad
    /\ pending = EmptyBag
    /\ fired = <<>>
    /\ outcome = NoOutcome

\* A handler that appends every announced record.
announceProviderKeepsAll(st, providerDetail) ==
    notifyProviderListChanged(
        [st EXCEPT !.providers = Append(@, providerDetail)],
        providerDetail)

\* A handler that takes the latest announcement of a uuid as its record.
announceProviderReplaces(st, providerDetail) ==
    IF ~\E i \in 1..Len(st.providers) :
           st.providers[i].info.uuid = providerDetail.info.uuid
    THEN notifyProviderListChanged(
             [st EXCEPT !.providers = Append(@, providerDetail)],
             providerDetail)
    ELSE [st EXCEPT !.providers =
             [i \in 1..Len(st.providers) |->
                 IF st.providers[i].info.uuid = providerDetail.info.uuid
                 THEN providerDetail ELSE st.providers[i]]]

\* The 'eip6963:announceProvider' listener of initializeProviderDiscovery,
\* run for one announcement.
announceProvider(st, providerDetail) ==
    IF ~\E i \in 1..Len(st.providers) :
           st.providers[i].info.uuid = providerDetail.info.uuid
    THEN notifyProviderListChanged(
             [st EXCEPT !.providers = Append(@, providerDetail)],
             providerDetail)
    ELSE st

\* A wallet announces itself with providerDetail to a page that listens for
\* announcements.
Announced(providerDetail) ==
    LET after == announceProvider(Session, providerDetail) IN
    /\ window.announceListeners > 0
    /\ providers' = after.providers
    /\ fired' = after.fired
    /\ invoked' = after.invoked
    /\ outcome' = [NoOutcome EXCEPT !.op = "announceProvider",
                                    !.status = "handled",
                                    !.detail = providerDetail]
    /\ UNCHANGED <<elsewhere, selectedProvider, address, cleanupListeners,
                   providerListeners, localStorage, pending>>

Announce == \E providerDetail \in AnnouncedDetails : Announced(providerDetail)

\* What a later announcement under the uuid of a record may carry: another
\* provider object, or other info.
Reannouncements(record) ==
    { [info |-> record.info, provider |-> "walletC"],
      [info |-> [uuid |-> record.info.uuid, name |-> "Renamed"],
       provider |-> record.provider] }

\* A wallet announces itself under a uuid the registry holds, with other
\* info or another provider object.
Reannounce ==
    \E i \in 1..Len(providers) :
        \E providerDetail \in Reannouncements(providers[i]) :
            Announced(providerDetail)

\* A call suspended at an await: the public method that was called, what it
\* waits for, the locals it still uses (the provider detail, the uuid
\* reconnect() read from the store, the parameters of the request sent), and
\* whether it has been through the 500 ms wait of reconnect().
Suspended(from, op, provider, savedProviderUuid, params) ==
    [from |-> from, op |-> op, provider |-> provider,
     uuid |-> savedProviderUuid, params |-> params, waited |-> FALSE]

\* The suspended calls are held without order: any of them may resume next.
Suspend(calls, call) == calls (+) SetToBag({call})

Resume(calls, call) == calls (-) SetToBag({call})

\* A lookup that takes the first record whatever its uuid.
findFirstRecord(list, uuid) ==
    IF Len(list) > 0 THEN list[1] ELSE NullObject

\* this.providers.find((p) => p.info.uuid === uuid): the first match, or
\* undefined.
find(list, uuid) ==
    IF \E i \in 1..Len(list) : list[i].info.uuid = uuid
    THEN list[CHOOSE i \in 1..Len(list) :
                  /\ list[i].info.uuid = uuid
                  /\ \A j \in 1..(i - 1) : list[j].info.uuid # uuid]
    ELSE NullObject

\* connect(provider) up to its await: eth_requestAccounts is sent.
ConnectCall ==
    \E i \in 1..Len(providers) :
        /\ BagCardinality(pending) < MaxPending
        /\ pending' = Suspend(pending,
                             Suspended("connect", "connect", providers[i],
                                       providers[i].info.uuid, <<>>))
        /\ fired' = <<>>
        /\ invoked' = <<>>
        /\ outcome' = NoOutcome
        /\ UNCHANGED <<elsewhere, providers, selectedProvider, address,
                       cleanupListeners, providerListeners, localStorage>>

\* connect(provider) from its await on: the provider answered `accounts`.
ConnectResolve ==
    \E call \in BagToSet(pending), accounts \in AccountLists,
       failing \in StorageFailures :
        LET after == connectResolved(Session, call.provider, accounts,
                                     failing)
        IN  /\ call.op = "connect"
            /\ Len(accounts) > 0
                  => Cardinality(HandlerSets(providerListeners))
                         < MaxHandlerSets
            /\ Len(accounts) = 0 => failing = "none"
            /\ Becomes(after)
            /\ pending' = Resume(pending, call)
            /\ outcome' =
                  [NoOutcome EXCEPT
                      !.op = call.from,
                      !.status = IF after.threw THEN "rejected"
                                 ELSE "resolved",
                      !.value = IF after.threw THEN "Failed to connect wallet"
                                ELSE IF Len(accounts) > 0 THEN accounts[1]
                                ELSE NULL,
                      !.detail = call.provider,
                      !.response = "accounts",
                      !.accounts = accounts,
                      !.persisted = IF call.from = "reconnect"
                                    THEN localStorage.walletAddress
                                    ELSE NULL,
                      !.waited = call.waited,
                      !.late = (outcome.op = "disconnect")]
            /\ UNCHANGED <<elsewhere, providers>>

\* connect(provider) from its await on: the provider rejected the request.
ConnectReject ==
    \E call \in BagToSet(pending) :
        /\ call.op = "connect"
        /\ pending' = Resume(pending, call)
        /\ fired' = <<>>
        /\ invoked' = <<>>
        /\ outcome' = [NoOutcome EXCEPT
                          !.op = call.from,
                          !.status = "rejected",
                          !.value = "Failed to connect wallet",
                          !.detail = call.provider,
                          !.response = "error",
                          !.waited = call.waited]
        /\ UNCHANGED <<elsewhere, providers, selectedProvider, address,
                       cleanupListeners, providerListeners, localStorage>>

\* disconnect()
Disconnect ==
    /\ Becomes(disconnect(Session))
    /\ outcome' = [NoOutcome EXCEPT !.op = "disconnect",
                                    !.status = "returned"]
    /\ UNCHANGED <<elsewhere, providers, pending>>

\* reconnect() up to its first await: without both persisted keys it
\* returns null; with no provider discovered it waits 500 ms; otherwise it
\* looks the provider up at once.
ReconnectCall ==
    LET savedAddress == localStorage.walletAddress
        savedProviderUuid == localStorage.walletProviderUuid
        provider == find(providers, savedProviderUuid)
    IN  /\ fired' = <<>>
        /\ invoked' = <<>>
        /\ UNCHANGED <<elsewhere, providers, selectedProvider, address,
                       cleanupListeners, providerListeners, localStorage>>
        /\ IF savedAddress = NULL \/ savedProviderUuid = NULL
           THEN /\ outcome' = [NoOutcome EXCEPT !.op = "reconnect",
                                                !.status = "resolved"]
                /\ UNCHANGED pending
           ELSE IF Len(providers) = 0
           THEN /\ BagCardinality(pending) < MaxPending
                /\ pending' = Suspend(pending,
                       Suspended("reconnect", "reconnectWait", NullObject,
                                 savedProviderUuid, <<>>))
                /\ outcome' = NoOutcome
           ELSE IF provider # NullObject
           THEN /\ BagCardinality(pending) < MaxPending
                /\ pending' = Suspend(pending,
                       Suspended("reconnect", "connect", provider,
                                 savedProviderUuid, <<>>))
                /\ outcome' = NoOutcome
           ELSE /\ outcome' = [NoOutcome EXCEPT !.op = "reconnect",
                                                !.status = "resolved"]
                /\ UNCHANGED pending

\* A reconnect() that looks the provider up before it waits, in the empty
\* registry.
ReconnectWokeLookupBeforeWait(call) ==
    /\ BagIn(call, pending)
    /\ call.op = "reconnectWait"
    /\ fired' = <<>>
    /\ invoked' = <<>>
    /\ UNCHANGED <<elsewhere, providers, selectedProvider, address,
                   cleanupListeners, providerListeners, localStorage>>
    /\ pending' = Resume(pending, call)
    /\ outcome' = [NoOutcome EXCEPT !.op = "reconnect",
                                    !.status = "resolved",
                                    !.waited = TRUE]

\* reconnect() after its 500 ms wait: the lookup by the uuid read before
\* the wait, then connect(provider).
ReconnectWoke(call) ==
    LET provider == find(providers, call.uuid) IN
    /\ BagIn(call, pending)
    /\ call.op = "reconnectWait"
    /\ fired' = <<>>
    /\ invoked' = <<>>
    /\ UNCHANGED <<elsewhere, providers, selectedProvider, address,
                   cleanupListeners, providerListeners, localStorage>>
    /\ IF provider # NullObject
       THEN /\ pending' =
                  Suspend(Resume(pending, call),
                          [Suspended("reconnect", "connect", provider,
                                     call.uuid, <<>>)
                              EXCEPT !.waited = TRUE])
            /\ outcome' = NoOutcome
       ELSE /\ pending' = Resume(pending, call)
            /\ outcome' = [NoOutcome EXCEPT !.op = "reconnect",
                                            !.status = "resolved",
                                            !.waited = TRUE]

ReconnectWake == \E call \in BagToSet(pending) : ReconnectWoke(call)

\* The answers of a provider to eth_chainId, with the hexadecimal digits
\* after the 0x prefix.
ChainIdResponses == {"0x1", "0xa", "0x89"}

HexDigits(chainIdHex) ==
    CASE chainIdHex = "0x1"  -> <<1>>
      [] chainIdHex = "0xa"  -> <<10>>
      [] chainIdHex = "0x89" -> <<8, 9>>

\* Number.parseInt(chainIdHex, 16)
RECURSIVE parseDigits(_, _)
parseDigits(digits, acc) ==
    IF digits = <<>> THEN acc
    ELSE parseDigits(Tail(digits), acc * 16 + Head(digits))

parseInt(chainIdHex) == parseDigits(HexDigits(chainIdHex), 0)

\* What a provider answers to eth_signTypedData_v4.
SignatureResponse == "0xsignature"

\* A check that lets every call through.
HasProviderUnchecked(st) == TRUE

\* this.selectedProvider?.provider is truthy.
HasProvider(st) == st.selectedProvider # NullObject

\* this.selectedProvider.provider.request(...) on a null selectedProvider:
\* the property read throws a TypeError, which rejects the call.
NullProviderRead(op) ==
    [NoOutcome EXCEPT !.op = op, !.status = "rejected",
                      !.value = "TypeError"]

\* signTypedData(message): without a session it throws; otherwise
\* eth_signTypedData_v4 is sent to the selected provider with the address
\* as its first parameter, and the provider's signature is returned or its
\* error propagates.  Nothing of the session is read or written after the
\* await, so the call and its answer are one step.
SignTypedData ==
    \E rejected \in BOOLEAN :
        /\ fired' = <<>>
        /\ invoked' = <<>>
        /\ UNCHANGED <<elsewhere, providers, selectedProvider, address,
                       cleanupListeners, providerListeners, localStorage,
                       pending>>
        /\ IF ~HasProvider(Session) \/ address = NULL
           THEN /\ ~rejected
                /\ outcome' = [NoOutcome EXCEPT
                                  !.op = "signTypedData",
                                  !.status = "rejected",
                                  !.value = "No wallet connected"]
           ELSE IF selectedProvider = NullObject
           THEN /\ ~rejected
                /\ outcome' = NullProviderRead("signTypedData")
           ELSE outcome' = [NoOutcome EXCEPT
                               !.op = "signTypedData",
                               !.status = IF rejected THEN "rejected"
                                          ELSE "resolved",
                               !.value = IF rejected THEN "provider error"
                                         ELSE SignatureResponse,
                               !.detail = selectedProvider,
                               !.params = <<address>>,
                               !.response = IF rejected THEN "error"
                                            ELSE "result"]

\* getChainId(): without a selected provider it throws; otherwise eth_chainId
\* is sent to the selected provider and its hexadecimal answer is parsed,
\* or its error propagates.  Nothing of the session is read or written
\* after the await, so the call and its answer are one step.
GetChainId ==
    \E rejected \in BOOLEAN, chainIdHex \in ChainIdResponses :
        /\ fired' = <<>>
        /\ invoked' = <<>>
        /\ UNCHANGED <<elsewhere, providers, selectedProvider, address,
                       cleanupListeners, providerListeners, localStorage,
                       pending>>
        /\ IF ~HasProvider(Session)
           THEN /\ ~rejected
                /\ outcome' = [NoOutcome EXCEPT
                                  !.op = "getChainId",
                                  !.status = "rejected",
                                  !.value = "No wallet connected"]
           ELSE IF selectedProvider = NullObject
           THEN /\ ~rejected
                /\ outcome' = NullProviderRead("getChainId")
           ELSE outcome' = [NoOutcome EXCEPT
                               !.op = "getChainId",
                               !.status = IF rejected THEN "rejected"
                                          ELSE "resolved",
                               !.value = IF rejected THEN "provider error"
                                         ELSE NULL,
                               !.detail = selectedProvider,
                               !.response = IF rejected THEN "error"
                                            ELSE "result",
                               !.chainId = IF rejected THEN 0
                                           ELSE parseInt(chainIdHex)]

\* The provider details in the registry: the wallets present on the page.
Discovered == {providers[i] : i \in 1..Len(providers)}

\* A provider emits accountsChanged to the handlers registered on it.
EmitAccountsChanged ==
    \E d \in Discovered, accounts \in AccountLists :
        /\ Registered(providerListeners, d.provider, "accountsChanged") # <<>>
        /\ Becomes(runHandlers(
                Session,
                Len(Registered(providerListeners, d.provider,
                               "accountsChanged")),
                "accountsChanged", [isArray |-> TRUE, list |-> accounts]))
        /\ outcome' = [NoOutcome EXCEPT !.op = "accountsChanged",
                                        !.status = "emitted",
                                        !.detail = d,
                                        !.accounts = accounts]
        /\ UNCHANGED <<elsewhere, providers, pending>>

\* A provider emits chainChanged to the handlers registered on it.
EmitChainChanged ==
    \E d \in Discovered :
        /\ Registered(providerListeners, d.provider, "chainChanged") # <<>>
        /\ Becomes(runHandlers(
                Session,
                Len(Registered(providerListeners, d.provider, "chainChanged")),
                "chainChanged", [isArray |-> FALSE, list |-> <<>>]))
        /\ outcome' = [NoOutcome EXCEPT !.op = "chainChanged",
                                        !.status = "emitted",
                                        !.detail = d]
        /\ UNCHANGED <<elsewhere, providers, pending>>

\* A provider emits disconnect to the handlers registered on it.
EmitDisconnect ==
    \E d \in Discovered :
        /\ Registered(providerListeners, d.provider, "disconnect") # <<>>
        /\ Becomes(runHandlers(
                Session,
                Len(Registered(providerListeners, d.provider, "disconnect")),
                "disconnect", [isArray |-> FALSE, list |-> <<>>]))
        /\ outcome' = [NoOutcome EXCEPT !.op = "disconnectEvent",
                                        !.status = "emitted",
                                        !.detail = d]
        /\ UNCHANGED <<elsewhere, providers, pending>>

\* ------------------------------------------------------------------------
\* ProviderRegistry: discovery and getProviders
\* ------------------------------------------------------------------------

\* Arrays of getProviders() a caller holds at the same time.
MaxReturned == 2

\* A page on which no connector has been constructed: no listener for
\* announcements, no timer task queued, no request broadcast dispatched.
FreshPage == [announceListeners |-> 0, timers |-> 0, requests |-> 0]

\* The page once the connector is constructed and its queued task has run.
AfterDiscovery == [announceListeners |-> 1, timers |-> 0, requests |-> 1]

\* window.addEventListener('eip6963:announceProvider', handler)
addEventListener(w) == [w EXCEPT !.announceListeners = @ + 1]

\* setTimeout(task, 0): the task is queued, to run after the current one.
setTimeout(w) == [w EXCEPT !.timers = @ + 1]

\* window.dispatchEvent(new Event('eip6963:requestProvider'))
dispatchEvent(w) == [w EXCEPT !.requests = @ + 1]

\* Discovery that queues the request without listening for the answers.
initializeProviderDiscoveryUnsubscribed(w) == setTimeout(w)

\* initializeProviderDiscovery(), on a page with a window: the listener is
\* added, then the request is queued.
initializeProviderDiscovery(w) == setTimeout(addEventListener(w))

\* new WalletConnector()
Construct ==
    /\ window = FreshPage
    /\ window' = initializeProviderDiscovery(window)
    /\ fired' = <<>>
    /\ invoked' = <<>>
    /\ outcome' = NoOutcome
    /\ UNCHANGED <<serverVars, auth, listenerVars, returned, providers,
                   selectedProvider, address, cleanupListeners,
                   providerListeners, localStorage, pending>>

\* What the wallets of the page announce when they are asked to: each
\* wallet once, in any order.
Responses ==
    {<<>>} \cup {<<d>> : d \in AnnouncedDetails}
           \cup {r \in {<<d, e>> : d, e \in AnnouncedDetails} : r[1] # r[2]}

\* The announcement listener run for each announcement in turn.
RECURSIVE announceAll(_, _)
announceAll(st, announcements) ==
    IF announcements = <<>> THEN st
    ELSE announceAll(announceProvider(st, Head(announcements)),
                     Tail(announcements))

\* The task queued by initializeProviderDiscovery runs: the request is
\* dispatched, and the wallets answer it with `responses` while it is
\* dispatched; a page that listens handles each answer.
RequestProviderAnswered(responses) ==
    LET after == IF window.announceListeners > 0
                 THEN announceAll(Session, responses)
                 ELSE Session
    IN  /\ window.timers > 0
        /\ window' = [dispatchEvent(window) EXCEPT !.timers = @ - 1]
        /\ providers' = after.providers
        /\ fired' = after.fired
        /\ invoked' = after.invoked
        /\ outcome' = NoOutcome
        /\ UNCHANGED <<serverVars, auth, listenerVars, returned, selectedProvider,
                       address, cleanupListeners, providerListeners,
                       localStorage, pending>>

RequestProvider == \E responses \in Responses : RequestProviderAnswered(responses)

\* An array a caller holds: one of its own with these items, or the very
\* array the registry keeps in this.providers.
OwnArray(items) == [shared |-> FALSE, items |-> items]

RegistryArray == [shared |-> TRUE, items |-> <<>>]

\* What a caller reads from an array it holds.
Items(array) == IF array.shared THEN providers ELSE array.items

\* getProviders() handing out this.providers itself.
getProvidersUncopied(st) == RegistryArray

\* getProviders(): [...this.providers], a new array with the same records.
getProviders(st) == OwnArray(st.providers)

GetProviders ==
    /\ Len(returned) < MaxReturned
    /\ returned' = Append(returned, getProviders(Session))
    /\ fired' = <<>>
    /\ invoked' = <<>>
    /\ outcome' = NoOutcome
    /\ UNCHANGED <<serverVars, auth, listenerVars, window, providers,
                   selectedProvider, address, cleanupListeners,
                   providerListeners, localStorage, pending>>

\* What a caller may do to an array it holds.
Mutations == {"pop", "reverse"}

mutate(items, mutation) ==
    IF mutation = "pop" THEN SubSeq(items, 1, Len(items) - 1)
    ELSE [i \in 1..Len(items) |-> items[Len(items) + 1 - i]]

\* A caller changes the i-th array it was handed, in place.
MutateReturnedBy(i, mutation) ==
    LET changed == mutate(Items(returned[i]), mutation) IN
    /\ changed # Items(returned[i])
    /\ IF returned[i].shared
       THEN /\ providers' = changed
            /\ UNCHANGED returned
       ELSE /\ returned' = [returned EXCEPT ![i] = OwnArray(changed)]
            /\ UNCHANGED providers
    /\ fired' = <<>>
    /\ invoked' = <<>>
    /\ outcome' = NoOutcome
    /\ UNCHANGED <<serverVars, auth, listenerVars, window, selectedProvider,
                   address, cleanupListeners, providerListeners,
                   localStorage, pending>>

MutateReturned ==
    \E i \in 1..Len(returned), mutation \in Mutations :
        MutateReturnedBy(i, mutation)

\* ------------------------------------------------------------------------
\* Change listeners: onAddressChange, onProviderChange, onProviderListChange
\* ------------------------------------------------------------------------

\* Registrations callers make in all.
MaxListeners == 3

\* The page once the connector is constructed, its task still queued.
Constructed == [announceListeners |-> 1, timers |-> 1, requests |-> 0]

NotificationKinds == {"addressChanged", "providerChanged", "providerListChanged"}

\* The disposer an on...Change call returns: a closure over the listener
\* it was given, here with whether the caller has called it.
Disposer(kind, listener) ==
    [kind |-> kind, listener |-> listener, called |-> FALSE]

\* listeners.filter((l) => l !== listener)
filterListener(listeners, listener) ==
    SelectSeq(listeners, LAMBDA l : l # listener)

\* onAddressChange(listener)
OnAddressChange ==
    \E listener \in Callbacks :
        /\ BagCardinality(disposers) < MaxListeners
        /\ addressChangeListeners' = Append(addressChangeListeners, listener)
        /\ disposers' =
              disposers (+) SetToBag({Disposer("addressChanged", listener)})
        /\ fired' = <<>>
        /\ invoked' = <<>>
        /\ outcome' = NoOutcome
        /\ UNCHANGED <<serverVars, auth, registryVars, providerChangeListeners,
                       providerListChangeListeners, providers,
                       selectedProvider, address, cleanupListeners,
                       providerListeners, localStorage, pending>>

\* onProviderChange(listener)
OnProviderChange ==
    \E listener \in Callbacks :
        /\ BagCardinality(disposers) < MaxListeners
        /\ providerChangeListeners' =
              Append(providerChangeListeners, listener)
        /\ disposers' =
              disposers (+) SetToBag({Disposer("providerChanged", listener)})
        /\ fired' = <<>>
        /\ invoked' = <<>>
        /\ outcome' = NoOutcome
        /\ UNCHANGED <<serverVars, auth, registryVars, addressChangeListeners,
                       providerListChangeListeners, providers,
                       selectedProvider, address, cleanupListeners,
                       providerListeners, localStorage, pending>>

\* onProviderListChange(listener)
OnProviderListChange ==
    \E listener \in Callbacks :
        /\ BagCardinality(disposers) < MaxListeners
        /\ providerListChangeListeners' =
              Append(providerListChangeListeners, listener)
        /\ disposers' =
              disposers
                  (+) SetToBag({Disposer("providerListChanged", listener)})
        /\ fired' = <<>>
        /\ invoked' = <<>>
        /\ outcome' = NoOutcome
        /\ UNCHANGED <<serverVars, auth, registryVars, addressChangeListeners,
                       providerChangeListeners, providers, selectedProvider,
                       address, cleanupListeners, providerListeners,
                       localStorage, pending>>

\* A caller calls a disposer it holds: the array of the disposer's kind is
\* replaced by the array filtered of the disposer's listener.
Disposed(disposer) ==
    /\ BagIn(disposer, disposers)
    /\ disposers' =
          (disposers (-) SetToBag({disposer}))
              (+) SetToBag({[disposer EXCEPT !.called = TRUE]})
    /\ addressChangeListeners' =
          IF disposer.kind = "addressChanged"
          THEN filterListener(addressChangeListeners, disposer.listener)
          ELSE addressChangeListeners
    /\ providerChangeListeners' =
          IF disposer.kind = "providerChanged"
          THEN filterListener(providerChangeListeners, disposer.listener)
          ELSE providerChangeListeners
    /\ providerListChangeListeners' =
          IF disposer.kind = "providerListChanged"
          THEN filterListener(providerListChangeListeners, disposer.listener)
          ELSE providerListChangeListeners
    /\ fired' = <<>>
    /\ invoked' = <<>>
    /\ outcome' = NoOutcome
    /\ UNCHANGED <<serverVars, auth, registryVars, providers, selectedProvider,
                   address, cleanupListeners, providerListeners,
                   localStorage, pending>>

Dispose == \E disposer \in BagToSet(disposers) : Disposed(disposer)

\* ------------------------------------------------------------------------
\* AuthClient: requestChallenge, signChallenge, authenticate,
\* authenticateWithWallet
\* ------------------------------------------------------------------------

\* JSON.stringify(value): the JSON text of the value.
stringify(value) == [json |-> value]

\* A body that is plain text.
Text(text) == [text |-> text]

\* response.json(): the value of a JSON text; a SyntaxError on other text.
parse(body) ==
    IF HasField(body, "json") THEN [threw |-> FALSE, value |-> body.json]
    ELSE [threw |-> TRUE, value |-> NullObject]

\* The chain ids of the model as decimal strings: chainId.toString(), and
\* the number the server reads from the query parameter.
Decimals == {<<1, "1">>, <<10, "10">>, <<137, "137">>}

toString(n) == (CHOOSE d \in Decimals : d[1] = n)[2]

Number(digits) == (CHOOSE d \in Decimals : d[2] = digits)[1]

\* The configuration of the client.
ClientConfig ==
    [challengeUrl |-> "https://api.example.com/challenge",
     authUrl |-> "https://api.example.com/auth"]

\* A request sent: to a provider (method and params) or to a URL (method,
\* query parameters, Authorization header, body).
ProviderRequest(provider, method, params) ==
    [to |-> provider, method |-> method, params |-> params,
     authorization |-> NULL, body |-> NullObject]

Fetch(url, method, query, authorization, body) ==
    [to |-> url, method |-> method, params |-> query,
     authorization |-> authorization, body |-> body]

\* What fetch() yields: a rejection (the request failed), or a response
\* with its ok flag and its body.
FetchFailed == [failed |-> TRUE, ok |-> FALSE, body |-> Text("")]

Response(ok, body) == [failed |-> FALSE, ok |-> ok, body |-> body]

\* What the challenge endpoint may answer to a request with this query: the
\* challenge the server creates for the address and the network id, an
\* error status, or a body that is no JSON.
ChallengeAnswers(query) ==
    { FetchFailed,
      Response(FALSE, Text("Invalid address")),
      Response(TRUE, Text("<html>")),
      Response(TRUE,
               stringify(AuthServerCreateChallenge(
                             Config, query.address, Number(query.networkId),
                             Omitted, now))) }

\* What the authentication endpoint may answer.
AuthAnswers ==
    { FetchFailed,
      Response(FALSE, Text("Authentication failed on server")),
      Response(TRUE, Text("")) }

\* The chain ids the provider answers in the flow.
AuthChainIds == {"0x1", "0x89"}

\* authenticateWithWallet() calls a method of the client.
Called(a, method, message, signedMessage) ==
    [a EXCEPT !.calls =
        Append(@, [method |-> method, message |-> message,
                   signedMessage |-> signedMessage, status |-> "pending",
                   result |-> NullObject, error |-> ""])]

\* The method called last resolves to result.
Settled(a, result) ==
    [a EXCEPT !.calls[Len(a.calls)].status = "resolved",
              !.calls[Len(a.calls)].result = result]

\* A flow that rejects with a message of its own.
PropagateWrapped(a) ==
    [a EXCEPT !.pc = "done", !.status = "rejected",
              !.error = "Authentication failed"]

\* An awaited method rejected: authenticateWithWallet() has no try block,
\* so it rejects with the same error and runs no further statement.
Propagate(a) ==
    [a EXCEPT !.pc = "done", !.status = "rejected",
              !.error = a.calls[Len(a.calls)].error]

\* The method called last rejects with error.
Failed(a, error) ==
    Propagate([a EXCEPT !.calls[Len(a.calls)].status = "rejected",
                        !.calls[Len(a.calls)].error = error])

\* The request the flow sent last.
LastSent(a) == a.sent[Len(a.sent)]

\* requestChallenge() up to its first await: getAddress(), then
\* walletConnector.getChainId(), which throws without a selected provider
\* and otherwise sends eth_chainId.
requestChallenge(a, st) ==
    LET c == Called(a, "requestChallenge", NullObject, NullObject) IN
    IF st.address = NULL THEN Failed(c, "No wallet connected")
    ELSE IF ~HasProvider(st) THEN Failed(c, "No wallet connected")
    ELSE [c EXCEPT
            !.pc = "chainId",
            !.address = st.address,
            !.sent = Append(@, ProviderRequest(st.selectedProvider.provider,
                                               "eth_chainId", <<>>))]

\* requestChallenge() once the provider answered chainIdHex: the GET of the
\* challenge URL with the address read at the start and the chain id.
requestChallengeFetch(a, chainIdHex) ==
    [a EXCEPT
        !.pc = "challenge",
        !.sent = Append(@, Fetch(ClientConfig.challengeUrl, "GET",
                                 [address |-> a.address,
                                  networkId |-> toString(parseInt(chainIdHex))],
                                 NULL, NullObject))]

\* signChallenge(message) up to its await: getAddress(), then
\* walletConnector.signTypedData(JSON.stringify(message)), which throws
\* without a session and otherwise sends eth_signTypedData_v4 with the
\* connector's address.
signChallenge(a, st, message) ==
    LET c == Called(a, "signChallenge", message, NullObject) IN
    IF st.address = NULL THEN Failed(c, "No wallet connected")
    ELSE IF ~HasProvider(st) \/ st.address = NULL
    THEN Failed(c, "No wallet connected")
    ELSE [c EXCEPT
            !.pc = "signature",
            !.sent = Append(@, ProviderRequest(
                                   st.selectedProvider.provider,
                                   "eth_signTypedData_v4",
                                   <<st.address, stringify(message)>>))]

\* authenticate(message, signedMessage) up to its await: the POST of the
\* challenge with the signature in the Authorization header.
authenticate(a, message, signedMessage) ==
    LET c == Called(a, "authenticate", message, signedMessage) IN
    [c EXCEPT
        !.pc = "submit",
        !.sent = Append(@, Fetch(ClientConfig.authUrl, "POST", EmptyObject,
                                 [scheme |-> "EIP712",
                                  credentials |-> signedMessage],
                                 stringify(message)))]

\* requestChallenge() once the challenge endpoint answered.
requestChallengeAnswered(a, answer) ==
    IF answer.failed THEN Failed(a, "Failed to fetch")
    ELSE IF ~answer.ok
    THEN Failed(a, "Failed to fetch authentication challenge: "
                       \o answer.body.text)
    ELSE IF parse(answer.body).threw THEN Failed(a, "SyntaxError")
    ELSE Settled(a, parse(answer.body).value)

\* authenticate() once the authentication endpoint answered.
authenticateAnswered(a, answer) ==
    IF answer.failed THEN Failed(a, "Failed to fetch")
    ELSE IF ~answer.ok
    THEN Failed(a, "Authentication failed: " \o answer.body.text)
    ELSE [Settled(a, [returned |-> TRUE]) EXCEPT !.pc = "done",
                                                 !.status = "resolved"]

\* What the wallet answers to an eth_signTypedData_v4 request: the signature
\* of the account named in the request over the typed data of the request.
WalletSignature(request) ==
    SignatureBy(request.params[1], parse(request.params[2]).value)

\* authenticateWithWallet() is called, no other call of it being under way.
AuthStart ==
    /\ auth.pc \in {"idle", "done"}
    /\ auth' = requestChallenge(NoAuth, Session)
    /\ UNCHANGED <<serverVars, walletVars, registryVars, listenerVars,
                   invoked>>

\* The provider answers eth_chainId, or rejects it.
AuthChainId ==
    \E rejected \in BOOLEAN, chainIdHex \in AuthChainIds :
        /\ auth.pc = "chainId"
        /\ auth' = IF rejected THEN Failed(auth, "provider error")
                   ELSE requestChallengeFetch(auth, chainIdHex)
        /\ UNCHANGED <<serverVars, walletVars, registryVars, listenerVars,
                       invoked>>

\* The challenge endpoint answers: with a challenge, requestChallenge()
\* resolves and signChallenge(challenge) is called.
AuthChallenge ==
    /\ auth.pc = "challenge"
    /\ \E answer \in ChallengeAnswers(LastSent(auth).params) :
          LET requested == requestChallengeAnswered(auth, answer) IN
          auth' = IF requested.status = "rejected" THEN requested
                  ELSE signChallenge(requested, Session,
                                     requested.calls[1].result)
    /\ UNCHANGED <<serverVars, walletVars, registryVars, listenerVars,
                   invoked>>

\* The provider answers eth_signTypedData_v4, or rejects it: with a
\* signature, signChallenge() resolves and authenticate(challenge,
\* signedChallenge) is called.
AuthSignature ==
    \E rejected \in BOOLEAN :
        /\ auth.pc = "signature"
        /\ auth' =
              IF rejected THEN Failed(auth, "User rejected signature")
              ELSE LET signed == Settled(auth,
                                         WalletSignature(LastSent(auth)))
                   IN  authenticate(signed, signed.calls[1].result,
                                    signed.calls[2].result)
        /\ UNCHANGED <<serverVars, walletVars, registryVars, listenerVars,
                       invoked>>

\* The authentication endpoint answers.
AuthSubmit ==
    \E answer \in AuthAnswers :
        /\ auth.pc = "submit"
        /\ auth' = authenticateAnswered(auth, answer)
        /\ UNCHANGED <<serverVars, walletVars, registryVars, listenerVars,
                       invoked>>

\* ------------------------------------------------------------------------
\* Specifications
\* ------------------------------------------------------------------------

Init == ServerInit /\ WalletInit /\ window = AfterDiscovery

\* The same with nothing persisted.
FreshInit == Init /\ localStorage = NoStorage

\* A page that loads the connector, with nothing persisted.
DiscoveryInit ==
    ServerInit /\ WalletInit /\ localStorage = NoStorage /\ window = FreshPage

DiscoveryNext ==
    \/ Construct
    \/ RequestProvider
    \/ Announce
    \/ GetProviders
    \/ MutateReturned

\* Discovery and the registry's list alone.
DiscoverySpec == DiscoveryInit /\ [][DiscoveryNext]_vars

\* The same where the module is loaded (which constructs the connector)
\* and the event loop runs the tasks queued with setTimeout.
DiscoveryFairSpec ==
    DiscoverySpec /\ WF_vars(Construct) /\ WF_vars(RequestProvider)

\* The connector of a page on which nothing was persisted, right after its
\* construction.
Unconnected ==
    [ address           |-> NULL,
      selectedProvider  |-> NullObject,
      cleanupListeners  |-> NullObject,
      providerListeners |-> <<>>,
      localStorage      |-> NoStorage,
      providers         |-> <<>>,
      addressChangeListeners      |-> <<>>,
      providerChangeListeners     |-> <<>>,
      providerListChangeListeners |-> <<>>,
      fired             |-> <<>>,
      invoked           |-> <<>>,
      threw             |-> FALSE ]

\* The connector after a wallet announced itself and connect() to it
\* resolved with these accounts, with the notifications of that last step.
ConnectedTo(providerDetail, accounts) ==
    connectResolved([announceProvider(Unconnected, providerDetail)
                         EXCEPT !.fired = <<>>, !.invoked = <<>>],
                    providerDetail, accounts, "none")

\* The page on which the client is used, as its tests set it up: the
\* connector holds a session, which connect() established.
ClientInit ==
    /\ ServerInit
    /\ window = AfterDiscovery
    /\ auth = NoAuth
    /\ returned = <<>>
    /\ addressChangeListeners = <<>>
    /\ providerChangeListeners = <<>>
    /\ providerListChangeListeners = <<>>
    /\ disposers = EmptyBag
    /\ pending = EmptyBag
    /\ \E providerDetail \in AnnouncedDetails, accounts \in AccountLists :
          LET st == ConnectedTo(providerDetail, accounts) IN
          /\ Len(accounts) > 0
          /\ providers = st.providers
          /\ selectedProvider = st.selectedProvider
          /\ address = st.address
          /\ cleanupListeners = st.cleanupListeners
          /\ providerListeners = st.providerListeners
          /\ localStorage = st.localStorage
          /\ fired = st.fired
          /\ invoked = st.invoked
          /\ outcome = [NoOutcome EXCEPT !.op = "connect",
                                         !.status = "resolved",
                                         !.value = accounts[1],
                                         !.detail = providerDetail,
                                         !.response = "accounts",
                                         !.accounts = accounts]

ClientNext ==
    \/ Disconnect
    \/ EmitAccountsChanged
    \/ AuthStart
    \/ AuthChainId
    \/ AuthChallenge
    \/ AuthSignature
    \/ AuthSubmit

\* The authentication flow of the client over a wallet session that the
\* wallet may change or end at any time.
ClientSpec == ClientInit /\ [][ClientNext]_vars

\* A page that has constructed the connector, with nothing persisted.
ListenerInit ==
    ServerInit /\ WalletInit /\ localStorage = NoStorage
        /\ window = Constructed

ListenerNext ==
    \/ OnAddressChange
    \/ OnProviderChange
    \/ OnProviderListChange
    \/ Dispose
    \/ RequestProvider
    \/ Announce
    \/ Disconnect

\* The change listeners and the notifications of discovery and disconnect().
ListenerSpec == ListenerInit /\ [][ListenerNext]_vars

ServerNext == Tick \/ Issue \/ ServerIssue \/ Verify \/ Respond

ReplayNext ==
    \/ ServerIssue
    \/ IssueLifeless
    \/ Present
    \/ Replay
    \/ Elapse
    \/ Reissue
    \/ Respond

WalletNext ==
    \/ Announce
    \/ Reannounce
    \/ ConnectCall
    \/ ConnectResolve
    \/ ConnectReject
    \/ Disconnect
    \/ ReconnectCall
    \/ ReconnectWake
    \/ SignTypedData
    \/ GetChainId
    \/ EmitAccountsChanged
    \/ EmitChainChanged
    \/ EmitDisconnect

\* The challenge protocol alone, and the wallet session alone.
ServerSpec == FreshInit /\ [][ServerNext]_vars

WalletSpec == Init /\ [][WalletNext]_vars

\* The challenge protocol with callers that present a pair again.
ReplaySpec == FreshInit /\ [][ReplayNext]_vars

\* ------------------------------------------------------------------------
\* Properties of the challenge protocol (checked under ServerSpec)
\* ------------------------------------------------------------------------

Verified == Len(verification) = 1
Issued   == Len(challenge) = 1

\* The last call was made on the issued envelope, exactly as issued.
OnIssuedEnvelope ==
    /\ Verified
    /\ Issued
    /\ DOMAIN verification[1].unsigned = DOMAIN challenge[1].envelope
    /\ HasField(verification[1].unsigned.message, "challenge")
    /\ verification[1].unsigned = challenge[1].envelope

\* The issued token's expiry time has been reached at the last call.
Elapsed == verification[1].at >= challenge[1].issuedAt + challenge[1].expiresIn

\* Two valid spellings of the same account.
SameAccount(x, y) ==
    \E r \in AddressTable : {x, y} \subseteq {r.lower, r.checksum, r.upper}

\* What signature recovery yields for the last call's arguments.
RecoveryOfLastCall ==
    verifyTypedData(
        verification[1].unsigned.domain,
        [Authentication |-> verification[1].unsigned.types.Authentication],
        verification[1].unsigned.message,
        verification[1].signed)

C3_ExpiredTokenRejected ==
    /\ (OnIssuedEnvelope /\ Elapsed)
          => verification[1].result.outcome = "InvalidJWTError"
    /\ (Verified /\ Issued /\ verification[1].result.outcome = "returned")
          => ~Elapsed

\* Witness of C3: the correct signature by the embedded address, too late.
C3_Witness ==
    /\ OnIssuedEnvelope
    /\ Elapsed
    /\ isAddress(challenge[1].address)
    /\ ~RecoveryOfLastCall.threw
    /\ SameAccount(RecoveryOfLastCall.address, challenge[1].address)
    /\ verification[1].result.outcome = "InvalidJWTError"

Outcomes ==
    { "returned", "InvalidMessageError", "InvalidJWTError",
      "InvalidSignatureError", "SignatureMismatchError" }

TokenAccepted ==
    /\ HasField(verification[1].unsigned.message, "challenge")
    /\ Len(verification[1].unsigned.message.challenge) = 3
    /\ verification[1].unsigned.message.challenge[3]
           = Hmac(verification[1].unsigned.message.challenge[2], ServerSecret)
    /\ verification[1].at < verification[1].unsigned.message.challenge[2].exp

FirstFailure ==
    LET u == verification[1].unsigned
        both == <<"jwt.verify", "verifyTypedData">>
    IN
    IF IsNullish(u) \/ ~HasField(u, "domain") \/ ~HasField(u, "message")
    THEN <<"InvalidMessageError", <<>>>>
    ELSE IF ~TokenAccepted
    THEN <<"InvalidJWTError", <<"jwt.verify">>>>
    ELSE IF ~isAddress(u.message.challenge[2].address)
    THEN <<"InvalidJWTError", <<"jwt.verify">>>>
    ELSE IF ~HasField(u, "types")
    THEN <<"InvalidSignatureError", <<"jwt.verify">>>>
    ELSE IF RecoveryOfLastCall.threw
    THEN <<"InvalidSignatureError", both>>
    ELSE IF ~isAddress(RecoveryOfLastCall.address)
    THEN <<"InvalidSignatureError", both>>
    ELSE IF ~SameAccount(RecoveryOfLastCall.address,
                         u.message.challenge[2].address)
    THEN <<"SignatureMismatchError", both>>
    ELSE <<"returned", both>>

C8_Scenario ==
    /\ OnIssuedEnvelope
    /\ challenge[1].address = "0xABCDEF0123456789ABCDEF0123456789ABCDEF01"
    /\ challenge[1].envelope.domain
           = [name |-> "App", version |-> "1", chainId |-> 1]
    /\ ~Elapsed
    /\ ~RecoveryOfLastCall.threw
    /\ SameAccount(RecoveryOfLastCall.address, challenge[1].address)

\* C8 as stated: in the scenario verify returns the lower-case spelling.
C8_ReturnsLowercase ==
    C8_Scenario =>
        /\ verification[1].result.outcome = "returned"
        /\ verification[1].result.value
               = "0xabcdef0123456789abcdef0123456789abcdef01"

\* C8 as amended: in the scenario verify returns the string signature
\* recovery produced, which equals the lower-case spelling only after
\* lower-casing.
C8_ReturnsRecoveredSpelling ==
    C8_Scenario =>
        /\ verification[1].result.outcome = "returned"
        /\ verification[1].result.value = RecoveryOfLastCall.address
        /\ toLowerCase(verification[1].result.value)
               = "0xabcdef0123456789abcdef0123456789abcdef01"

\* Witness of C8: the scenario, returning the checksum spelling.
C8_Witness ==
    /\ C8_Scenario
    /\ verification[1].result.outcome = "returned"
    /\ verification[1].result.value
           = "0xabCDeF0123456789AbcdEf0123456789aBCDEF01"

\* The token of the last call was produced with the server's secret and
\* not altered: its signature segment is the HMAC of its payload.
SignedWithServerSecret ==
    /\ HasField(verification[1].unsigned.message, "challenge")
    /\ Len(verification[1].unsigned.message.challenge) = 3
    /\ verification[1].unsigned.message.challenge[3]
           = Hmac(verification[1].unsigned.message.challenge[2], ServerSecret)

C10_AddressIffProvider ==
    (address # NULL) <=> (selectedProvider # NullObject)

\* The session states of the design: Connected has a provider and an address.
Connected == address # NULL /\ selectedProvider # NullObject

Disconnected == ~Connected

\* The last step was a provider event.
EventEmitted == outcome.status = "emitted"

\* The fields a caller can observe or a provider holds are as before the step.
SessionUnchanged ==
    UNCHANGED <<address, selectedProvider, providerListeners, localStorage>>

\* The session's handlers registered on a provider for an event.
HandlersOn(registry, provider, eventName) ==
    Len(Registered(registry, provider, eventName))

ProviderEvents == {"accountsChanged", "chainChanged", "disconnect"}

\* C11: after disconnect() has returned, a provider event invokes no handler
\* of the session: it changes nothing of the session and fires no
\* notification, whatever connect() and reconnect() calls came before.
C11_NoHandlerAfterDisconnect ==
    [][ (outcome.op = "disconnect" /\ EventEmitted')
            => (SessionUnchanged /\ fired' = <<>>) ]_vars

\* The last step completed a connect(provider) call, made directly or by
\* reconnect().
ConnectEnded == outcome.op \in {"connect", "reconnect"} /\ outcome.response # ""

\* C12: whenever connect(provider) fails, the session is as it was before:
\* address, selectedProvider, the attached provider handlers and the
\* persisted keys are unchanged.
C12_FailedConnectChangesNothing ==
    [][ (ConnectEnded' /\ outcome'.status = "rejected")
            => SessionUnchanged ]_vars

\* C13: connect(provider) whose provider answers an empty account list
\* resolves to null and changes nothing, from any prior state: address,
\* selectedProvider, the provider handlers and the persisted keys keep
\* their values and no notification fires.
C13_EmptyAccountsChangesNothing ==
    [][ (ConnectEnded' /\ outcome'.response = "accounts"
                       /\ outcome'.accounts = <<>>)
            => /\ outcome'.status = "resolved"
               /\ outcome'.value = NULL
               /\ SessionUnchanged
               /\ UNCHANGED cleanupListeners
               /\ fired' = <<>> ]_vars

\* Witness of C13: a connect() answered with no account has resolved to
\* null while a session with the other provider exists.
C13_Witness ==
    /\ ConnectEnded
    /\ outcome.response = "accounts"
    /\ outcome.accounts = <<>>
    /\ outcome.status = "resolved"
    /\ outcome.value = NULL
    /\ Connected
    /\ selectedProvider # outcome.detail
    /\ HandlersOn(providerListeners, outcome.detail.provider,
                  "accountsChanged") = 0

DisconnectNotifications ==
    << [kind |-> "addressChanged", value |-> NULL],
       [kind |-> "providerChanged", value |-> NULL] >>

\* C15: disconnect() from Connected leaves no accountsChanged, chainChanged
\* or disconnect handler of the session on the provider that was selected,
\* sets address and selectedProvider to null, removes both persisted keys
\* and fires address-changed(null) then provider-changed(null).
C15_DisconnectTearsDown ==
    [][ (Connected /\ outcome'.op = "disconnect")
            => /\ \A ev \in ProviderEvents :
                      HandlersOn(providerListeners',
                                 selectedProvider.provider, ev) = 0
               /\ address' = NULL
               /\ selectedProvider' = NullObject
               /\ localStorage' = NoStorage
               /\ fired' = DisconnectNotifications ]_vars

\* The step is the event `op` emitted by the selected provider of a
\* Connected session.
SelectedProviderEmits(op) ==
    /\ Connected
    /\ outcome'.status = "emitted"
    /\ outcome'.op = op
    /\ outcome'.detail = selectedProvider

\* The step leaves the session as the operator result st, with the
\* notifications of st fired.
StepYields(st) ==
    /\ address' = st.address
    /\ selectedProvider' = st.selectedProvider
    /\ cleanupListeners' = st.cleanupListeners
    /\ providerListeners' = st.providerListeners
    /\ localStorage' = st.localStorage
    /\ fired' = st.fired

\* C16: while Connected, an accountsChanged event with an empty list and a
\* disconnect event of the selected provider each leave the same state,
\* persisted keys, attached handlers and notifications as a call of
\* disconnect() in that state.
C16_EventsEqualDisconnect ==
    [][ ( \/ SelectedProviderEmits("disconnectEvent")
          \/ (SelectedProviderEmits("accountsChanged")
                /\ outcome'.accounts = <<>>) )
            => StepYields(disconnect(Session)) ]_vars

\* C17: while Connected, accountsChanged of the selected provider with a
\* non-empty list whose first entry differs from the address sets address
\* to that entry and fires one address-changed with it, and nothing else
\* changes; when the first entry equals the address nothing changes and
\* nothing fires.
C17_AccountSwitch ==
    [][ (SelectedProviderEmits("accountsChanged") /\ outcome'.accounts # <<>>)
            => /\ UNCHANGED <<selectedProvider, providerListeners,
                              cleanupListeners>>
               /\ address' = outcome'.accounts[1]
               /\ fired' = IF address # outcome'.accounts[1]
                           THEN << [kind |-> "addressChanged",
                                    value |-> outcome'.accounts[1]] >>
                           ELSE <<>> ]_vars

\* Witness of C17: the selected provider announced another first account
\* and the session took it, with one notification.
C17_Witness ==
    /\ outcome.op = "accountsChanged"
    /\ outcome.status = "emitted"
    /\ outcome.detail = selectedProvider
    /\ outcome.accounts = <<"0x71C7656EC7ab88b098defB751B7401B5f6d8976F",
                            "0xabCDeF0123456789AbcdEf0123456789aBCDEF01">>
    /\ address = "0x71C7656EC7ab88b098defB751B7401B5f6d8976F"
    /\ localStorage.walletAddress
           = "0xabCDeF0123456789AbcdEf0123456789aBCDEF01"
    /\ fired = << [kind |-> "addressChanged",
                   value |-> "0x71C7656EC7ab88b098defB751B7401B5f6d8976F"] >>

\* C18: while Connected, a chainChanged event of the selected provider fires
\* exactly one address-changed notification carrying the unchanged address
\* and changes nothing: address, selectedProvider, the attached handlers
\* and the persisted keys stay, and no provider-changed fires.
C18_ChainChangedNotifiesOnce ==
    [][ SelectedProviderEmits("chainChanged")
            => /\ fired' = <<[kind |-> "addressChanged", value |-> address]>>
               /\ SessionUnchanged ]_vars

\* The last step was a call of signTypedData or getChainId; it sent a
\* request when the outcome holds a provider's answer.
RequestCalled == outcome.op \in {"signTypedData", "getChainId"}

RequestSent == outcome.response \in {"result", "error"}

\* C19: signTypedData and getChainId send a provider request only while
\* the session is Connected, and then to the selected provider; in every
\* Disconnected state they fail with 'No wallet connected' and send no
\* request.
C19_RequestsNeedSession ==
    [][ RequestCalled'
            => /\ RequestSent'
                    => /\ Connected
                       /\ outcome'.detail = selectedProvider
               /\ Disconnected
                    => /\ ~RequestSent'
                       /\ outcome'.status = "rejected"
                       /\ outcome'.value = "No wallet connected" ]_vars

\* Witness of C19: after a session with handlers left on a provider has
\* ended, getChainId failed with the no-session error.
C19_Witness ==
    /\ outcome.op = "getChainId"
    /\ outcome.status = "rejected"
    /\ outcome.value = "No wallet connected"
    /\ Disconnected
    /\ localStorage = NoStorage
    /\ providerListeners # <<>>

InRegistry(uuid) ==
    \E i \in 1..Len(providers) : providers[i].info.uuid = uuid

\* One of the persisted keys is missing.
PersistedKeyMissing ==
    localStorage.walletAddress = NULL \/ localStorage.walletProviderUuid = NULL

\* The step ends a reconnect() with null: nothing raised, nothing notified,
\* the session, the attached handlers and the persisted keys as they were,
\* and no request added to those awaiting a provider's answer.
ReconnectGivesUp ==
    /\ outcome'.op = "reconnect"
    /\ outcome'.status = "resolved"
    /\ outcome'.value = NULL
    /\ outcome'.response = ""
    /\ fired' = <<>>
    /\ SessionUnchanged
    /\ UNCHANGED cleanupListeners
    /\ \A call \in BagToSet(pending') :
           /\ call \in BagToSet(pending)
           /\ CopiesIn(call, pending') <= CopiesIn(call, pending)

\* C21: reconnect() resolves to null, raising nothing and leaving address,
\* selectedProvider, the attached handlers and the persisted keys as they
\* were, when a persisted key is missing or when the registry has no record
\* with the persisted uuid at the lookup (at once for a non-empty registry,
\* after the 500 ms wait for an empty one); no provider request is sent.
C21_ReconnectWithoutMatchIsNull ==
    [][ /\ ( /\ ReconnectCall
             /\ \/ PersistedKeyMissing
                \/ /\ Len(providers) > 0
                   /\ ~InRegistry(localStorage.walletProviderUuid) )
           => ReconnectGivesUp
        /\ \A call \in BagToSet(pending) :
               (ReconnectWoke(call) /\ ~InRegistry(call.uuid))
                   => ReconnectGivesUp ]_vars

\* reconnect() has given up after its wait: providers were announced in the
\* meantime, none of them with the persisted uuid.
C21_Witness ==
    /\ outcome.op = "reconnect"
    /\ outcome.status = "resolved"
    /\ outcome.value = NULL
    /\ outcome.waited
    /\ Len(providers) > 0
    /\ localStorage.walletProviderUuid = "p3"

\* No two records of the list have the same uuid.
NoTwoWithSameUuid(list) ==
    \A i, j \in 1..Len(list) :
        list[i].info.uuid = list[j].info.uuid => i = j

\* What getProviders() returns in this state.
ProviderList == Items(getProviders(Session))

\* C22: whatever is announced, and however often, getProviders() holds no
\* two records with the same uuid, and its records are in the order in
\* which their uuids were first announced: an announcement with a uuid the
\* list holds leaves the list as it is, and one with a new uuid puts its
\* record at the end.
C22_DistinctInFirstSeenOrder ==
    [][ /\ NoTwoWithSameUuid(ProviderList')
        /\ \A providerDetail \in AnnouncedDetails :
               Announced(providerDetail) =>
                   ProviderList' =
                       IF InRegistry(providerDetail.info.uuid)
                       THEN ProviderList
                       ELSE Append(ProviderList, providerDetail)
        /\ \A responses \in Responses :
               RequestProviderAnswered(responses) =>
                   /\ SubSeq(ProviderList', 1, Len(ProviderList))
                          = ProviderList
                   /\ \A i \in 1..Len(responses) :
                          \E j \in 1..Len(ProviderList') :
                              ProviderList'[j].info.uuid
                                  = responses[i].info.uuid ]_vars

\* A wallet announced itself again: p2 was announced first, p1 second, and
\* the last announcement was of a uuid the list already held.
C22_Witness ==
    /\ outcome.op = "announceProvider"
    /\ fired = <<>>
    /\ Len(providers) = 2
    /\ providers[1].info.uuid = "p2"
    /\ providers[2].info.uuid = "p1"

\* this.<kind>Listeners
ListenersOf(kind) ==
    IF kind = "addressChanged" THEN addressChangeListeners
    ELSE IF kind = "providerChanged" THEN providerChangeListeners
    ELSE providerListChangeListeners

\* One call of each registered provider-list listener, in registration
\* order, with the record.
ProviderListCalls(providerDetail) ==
    [i \in 1..Len(providerListChangeListeners) |->
        [listener |-> providerListChangeListeners[i],
         kind |-> "providerListChanged", address |-> NULL,
         provider |-> providerDetail]]

\* The calls a run of announcements leads to: those of each announcement
\* whose uuid neither the registry nor an earlier announcement of the run
\* has.
RECURSIVE CallsForNew(_, _)
CallsForNew(announcements, k) ==
    IF k = 0 THEN <<>>
    ELSE CallsForNew(announcements, k - 1) \o
         ( IF \/ InRegistry(announcements[k].info.uuid)
              \/ \E j \in 1..(k - 1) :
                     announcements[j].info.uuid = announcements[k].info.uuid
           THEN <<>>
           ELSE ProviderListCalls(announcements[k]) )

\* C23: an announcement with a new uuid calls each registered provider-list
\* listener exactly once, within the handling of the announcement, with the
\* record just added; an announcement with a uuid the registry holds calls
\* no listener; the announcements that answer one request are notified in
\* the order in which they arrive.
C23_OneNotificationPerNewProvider ==
    [][ /\ \A providerDetail \in AnnouncedDetails :
               Announced(providerDetail) =>
                   invoked' = CallsForNew(<<providerDetail>>, 1)
        /\ \A responses \in Responses :
               RequestProviderAnswered(responses) =>
                   invoked' = CallsForNew(responses, Len(responses)) ]_vars

\* Two wallets answered the request, and each of two provider-list
\* listeners was called for p2 and then for p1.
C23_Witness ==
    /\ Len(providerListChangeListeners) = 2
    /\ Len(invoked) = 4
    /\ invoked[1].provider.info.uuid = "p2"
    /\ invoked[2].provider.info.uuid = "p2"
    /\ invoked[3].provider.info.uuid = "p1"
    /\ invoked[1].listener = providerListChangeListeners[1]
    /\ invoked[2].listener = providerListChangeListeners[2]

\* How often the function is registered in the array.
Registrations(listeners, listener) ==
    Len(SelectSeq(listeners, LAMBDA l : l = listener))

\* The array without the entries that are the function.
OtherRegistrations(listeners, listener) ==
    SelectSeq(listeners, LAMBDA l : l # listener)

\* C24: a disposer called for the first time takes exactly one registration
\* of its listener out of the array of its kind, every other registration
\* (of another function, or another one of the same function) staying where
\* it is; a disposer called again changes nothing; the arrays of the other
\* kinds are never changed.
C24_DisposerRemovesOneRegistration ==
    [][ \A disposer \in BagToSet(disposers) :
            Disposed(disposer) =>
                /\ \A kind \in NotificationKinds \ {disposer.kind} :
                       ListenersOf(kind)' = ListenersOf(kind)
                /\ IF disposer.called
                   THEN ListenersOf(disposer.kind)'
                            = ListenersOf(disposer.kind)
                   ELSE /\ Registrations(ListenersOf(disposer.kind)',
                                         disposer.listener)
                              = Registrations(ListenersOf(disposer.kind),
                                              disposer.listener) - 1
                        /\ OtherRegistrations(ListenersOf(disposer.kind)',
                                              disposer.listener)
                              = OtherRegistrations(
                                    ListenersOf(disposer.kind),
                                    disposer.listener) ]_vars

\* What was handed to the listener, as the notification records it.
Handed(call) ==
    IF call.kind = "addressChanged" THEN call.address
    ELSE IF call.provider = NullObject THEN NULL
    ELSE call.provider.info.uuid

\* The calls the first k notifications lead to: for each notification in
\* turn, one call per registration of its kind, in registration order.
RECURSIVE CallsFor(_, _)
CallsFor(notifications, k) ==
    IF k = 0 THEN <<>>
    ELSE CallsFor(notifications, k - 1) \o
         [i \in 1..Len(ListenersOf(notifications[k].kind)) |->
             [listener |-> ListenersOf(notifications[k].kind)[i],
              kind |-> notifications[k].kind,
              value |-> notifications[k].value]]

\* C25: every notification calls each listener registered for its kind
\* exactly once, in registration order, before the next notification of
\* the step is made.
C25_EachListenerOnceInOrder ==
    [][ [i \in 1..Len(invoked') |->
            [listener |-> invoked'[i].listener, kind |-> invoked'[i].kind,
             value |-> Handed(invoked'[i])]]
        = CallsFor(fired', Len(fired')) ]_vars

\* disconnect() with the same function registered twice for address changes
\* and another function registered for provider changes.
C25_Witness ==
    /\ outcome.op = "disconnect"
    /\ Len(addressChangeListeners) = 2
    /\ addressChangeListeners[1] = addressChangeListeners[2]
    /\ Len(providerChangeListeners) = 1
    /\ Len(invoked) = 3
    /\ invoked[3].kind = "providerChanged"

\* C26: getProviders() hands out a copy of the list: it holds the records
\* of the registry in their order; a caller changing an array it was handed
\* changes neither the registry's list nor another array handed out; and
\* no announcement changes an array handed out earlier.
C26_GetProvidersCopies ==
    [][ /\ GetProviders =>
               /\ Len(returned') = Len(returned) + 1
               /\ \A i \in 1..Len(returned') :
                      i > Len(returned) => Items(returned[i])' = providers
               /\ \A i \in 1..Len(returned) :
                      Items(returned[i])' = Items(returned[i])
               /\ UNCHANGED providers
        /\ \A i \in 1..Len(returned), mutation \in Mutations :
               MutateReturnedBy(i, mutation) =>
                   /\ UNCHANGED providers
                   /\ \A j \in 1..Len(returned) \ {i} :
                          Items(returned[j])' = Items(returned[j])
        /\ (Announce \/ RequestProvider) =>
               \A i \in 1..Len(returned) :
                   Items(returned[i])' = Items(returned[i]) ]_vars

\* A caller holds an array handed out when the registry had one record and
\* has reversed another handed out later; a wallet has announced itself
\* since, and the registry's list is in the order of the announcements.
C26_Witness ==
    /\ Len(returned) = 2
    /\ Len(providers) = 2
    /\ Len(Items(returned[1])) = 1
    /\ Len(Items(returned[2])) = 2
    /\ Items(returned[2]) # providers
    /\ outcome.op = "announceProvider"

\* C30: the constructor adds the announcement listener and only queues the
\* request; when the queued task dispatches the request the listener is in
\* place, so the record of every wallet that answers is in the registry
\* when the dispatch returns; the request is dispatched once, and never a
\* second time.
C30_ListensBeforeRequesting ==
    /\ [][ /\ Construct =>
                  /\ window'.announceListeners = 1
                  /\ window'.timers = 1
                  /\ window'.requests = 0
                  /\ UNCHANGED providers
           /\ \A responses \in Responses :
                  RequestProviderAnswered(responses) =>
                      /\ window.announceListeners = 1
                      /\ window'.requests = 1
                      /\ \A i \in 1..Len(responses) :
                             \E j \in 1..Len(providers') :
                                 providers'[j] = responses[i]
           /\ window'.requests <= 1 ]_vars
    /\ <>[](window.requests = 1)

\* The request has been dispatched and both wallets answered it, p2 first.
C30_Witness ==
    /\ window.requests = 1
    /\ outcome = NoOutcome
    /\ Len(fired) = 2
    /\ providers = <<[info |-> [uuid |-> "p2"], provider |-> "walletB"],
                     [info |-> [uuid |-> "p1"], provider |-> "walletA"]>>

\* How many calls of reconnect() are in their 500 ms wait.
Waiting(calls) ==
    BagCardinality([call \in {c \in BagToSet(calls) :
                                 c.op = "reconnectWait"}
                       |-> CopiesIn(call, calls)])

\* connect(provider) has been called by reconnect() and its request to the
\* provider is awaited.
Connecting(provider, uuid, waited) ==
    [Suspended("reconnect", "connect", provider, uuid, <<>>)
        EXCEPT !.waited = waited]

\* C29: with both keys persisted, reconnect() starts its 500 ms wait only
\* when the registry is empty as it is called; it looks the provider up
\* after the wait and never waits again, so a wallet that announced the
\* persisted uuid during the wait is the provider connect() is called with;
\* with a non-empty registry the lookup is made at once, and without a
\* record of the persisted uuid the call resolves to null without waiting.
C29_WaitsOnceForEmptyRegistry ==
    [][ /\ (ReconnectCall /\ ~PersistedKeyMissing) =>
               IF Len(providers) = 0
               THEN /\ Waiting(pending') = Waiting(pending) + 1
                    /\ outcome' = NoOutcome
               ELSE /\ Waiting(pending') = Waiting(pending)
                    /\ IF InRegistry(localStorage.walletProviderUuid)
                       THEN \E i \in 1..Len(providers) :
                              /\ providers[i].info.uuid
                                     = localStorage.walletProviderUuid
                              /\ pending' =
                                     Suspend(pending,
                                         Connecting(providers[i],
                                             localStorage.walletProviderUuid,
                                             FALSE))
                       ELSE /\ ReconnectGivesUp
                            /\ ~outcome'.waited
        /\ \A call \in BagToSet(pending) :
               ReconnectWoke(call) =>
                   /\ Waiting(pending') = Waiting(pending) - 1
                   /\ IF InRegistry(call.uuid)
                      THEN \E i \in 1..Len(providers) :
                             /\ providers[i].info.uuid = call.uuid
                             /\ pending' =
                                    Suspend(Resume(pending, call),
                                        Connecting(providers[i], call.uuid,
                                                   TRUE))
                      ELSE ReconnectGivesUp /\ outcome'.waited
        /\ ~ReconnectCall => Waiting(pending') <= Waiting(pending) ]_vars

\* reconnect() found the registry empty and waited, the wallet with the
\* persisted uuid announced itself during the wait, and the call ended
\* connected to it.
C29_Witness ==
    /\ outcome.op = "reconnect"
    /\ outcome.waited
    /\ outcome.status = "resolved"
    /\ outcome.value # NULL
    /\ outcome.detail.info.uuid = "p1"
    /\ Connected
    /\ selectedProvider.info.uuid = "p1"

\* ------------------------------------------------------------------------
\* Properties of createChallenge (checked under ServerSpec)
\* ------------------------------------------------------------------------

\* The envelope is a challenge for the account under the domain whose token
\* lives for ttl seconds from clock: the token verifies under the server's
\* secret, to the account and to that expiry.
IsChallengeFor(envelope, account, domain, ttl, clock) ==
    /\ envelope.domain = domain
    /\ envelope.primaryType = "Authentication"
    /\ envelope.types.Authentication
           = <<[name |-> "challenge", type |-> "string"]>>
    /\ DOMAIN envelope.message = {"challenge"}
    /\ LET decoded == jwtVerify(envelope.message.challenge, ServerSecret,
                                clock)
       IN  /\ ~decoded.threw
           /\ decoded.payload.address = account
           /\ decoded.payload.exp = clock + ttl

\* The time-to-live a call asks for: the one given, 30 seconds when none is.
AskedTtl(expiresIn) == IF expiresIn = <<>> THEN 30 ELSE expiresIn[1]

FlowMethods == <<"requestChallenge", "signChallenge", "authenticate">>

\* The requests of the flow that carry the challenge: the signing request
\* and the submission.
SentBy(method) ==
    SelectSeq(auth.sent, LAMBDA request : request.method = method)

\* C28: authenticateWithWallet() calls requestChallenge, then signChallenge,
\* then authenticate, each only after the one before it resolved; it hands
\* signChallenge the challenge requestChallenge resolved to, and the wallet
\* is asked to sign the JSON text of that challenge; it hands authenticate
\* that challenge and the signature signChallenge resolved to, and the
\* submission carries the JSON text of that challenge with that signature
\* in its Authorization header; a call that rejects is the last call made,
\* the flow rejects with that call's error, and the flow resolves only
\* when authenticate resolved.
C28_RequestSignSubmitInOrder ==
    LET calls == auth.calls
        made == Len(calls)
    IN  /\ made <= 3
        /\ \A i \in 1..made : calls[i].method = FlowMethods[i]
        /\ \A i \in 2..made : calls[i - 1].status = "resolved"
        /\ made >= 2 => calls[2].message = calls[1].result
        /\ made = 3 => /\ calls[3].message = calls[1].result
                       /\ calls[3].signedMessage = calls[2].result
        /\ \A i \in 1..Len(SentBy("eth_signTypedData_v4")) :
               /\ made >= 2
               /\ SentBy("eth_signTypedData_v4")[i].params[2]
                      = stringify(calls[1].result)
        /\ \A i \in 1..Len(SentBy("POST")) :
               /\ made = 3
               /\ SentBy("POST")[i].body = stringify(calls[1].result)
               /\ SentBy("POST")[i].authorization
                      = [scheme |-> "EIP712", credentials |-> calls[2].result]
        /\ Len(SentBy("POST")) <= 1
        /\ Len(SentBy("eth_signTypedData_v4")) <= 1
        /\ \A i \in 1..made :
               calls[i].status = "rejected" =>
                   /\ i = made
                   /\ auth.status = "rejected"
                   /\ auth.error = calls[i].error
        /\ auth.status = "rejected" =>
               made > 0 /\ calls[made].status = "rejected"
        /\ auth.status = "resolved" =>
               made = 3 /\ calls[3].status = "resolved"

\* The wallet refused to sign the challenge received: the flow rejected with
\* the wallet's error and submitted nothing.
C28_Witness ==
    /\ auth.status = "rejected"
    /\ Len(auth.calls) = 2
    /\ auth.calls[1].result.primaryType = "Authentication"
    /\ auth.error = "User rejected signature"
    /\ Len(SentBy("POST")) = 0

\* The three handlers a cleanup closure removes are registered on its
\* provider.
Attached(registry, cleanup) ==
    \A ev \in ProviderEvents :
        \E i \in 1..Len(registry) :
            registry[i] = [provider |-> cleanup.provider, event |-> ev,
                           handler |-> cleanup.handlers]

\* None of the handlers a cleanup closure removes is registered.
Detached(registry, cleanup) ==
    \A i \in 1..Len(registry) :
        ~(registry[i].provider = cleanup.provider
            /\ registry[i].handler = cleanup.handlers)

Unexpired(unsigned, clock) == clock < unsigned.message.challenge[2].exp

\* C32: verifyChallenge keeps no state between calls: the outcome of every
\* verification is what verifyChallenge yields for its own envelope,
\* signature, secret and time, whatever was issued or verified before; and
\* a pair that verified successfully yields the same successful result at
\* every later time at which its token is unexpired.
C32_VerificationIsStateless ==
    \A i \in 1..Len(verification) :
        LET call == verification[i] IN
        /\ call.result = verifyChallenge(call.unsigned, call.signed,
                                         ServerSecret, call.at)
        /\ \A j \in 1..(i - 1) :
               ( /\ verification[j].unsigned = call.unsigned
                 /\ verification[j].signed = call.signed
                 /\ verification[j].result.outcome = "returned"
                 /\ Unexpired(call.unsigned, call.at) )
                   => call.result = verification[j].result

\* A pair verified successfully twice, the second time later than the
\* first and after another challenge was issued.
C32_Witness ==
    /\ Len(verification) = 2
    /\ verification[1].result.outcome = "returned"
    /\ verification[2].result.outcome = "returned"
    /\ verification[2].at > verification[1].at
    /\ challenge[1].envelope # verification[1].unsigned
    /\ challenge[1].issuedAt > verification[1].at

\* The envelope was issued for a string that is no address, or with a
\* time-to-live of 0 or less: its token says so (jwt.sign sets
\* exp = iat + expiresIn).
IssuedUnusable(unsigned) ==
    LET claims == unsigned.message.challenge[2] IN
    \/ ~isAddress(claims.address)
    \/ claims.exp - claims.iat <= 0

IsPrefix(earlier, later) ==
    /\ Len(earlier) <= Len(later)
    /\ SubSeq(later, 1, Len(earlier)) = earlier

\* C34: the provider list only grows: every step (an announcement,
\* connect, disconnect, reconnect, a request, a provider event) leaves the
\* records held where they are and as they are, so that what
\* getProviders() returned before is a prefix of what it returns after;
\* and an announcement under a uuid the list holds, with other info or
\* another provider object, leaves the list as it is.
C34_ProviderListOnlyGrows ==
    [][ /\ IsPrefix(Items(getProviders(Session)),
                    Items(getProviders(Session))')
        /\ (outcome'.op = "announceProvider"
              /\ InRegistry(outcome'.detail.info.uuid))
               => providers' = providers ]_vars

\* walletA was announced first under p1 and is connected; an announcement
\* of another provider object under p1 has been handled, and the record is
\* the first-seen one.
C34_Witness ==
    /\ outcome.op = "announceProvider"
    /\ outcome.detail = [info |-> [uuid |-> "p1"], provider |-> "walletC"]
    /\ Len(providers) = 2
    /\ providers[2] = [info |-> [uuid |-> "p1"], provider |-> "walletA"]
    /\ selectedProvider = providers[2]

\* C35: disconnect() on a Disconnected session leaves address and
\* selectedProvider null and no handler of the session on any provider,
\* removes the persisted keys and fires address-changed(null) then
\* provider-changed(null); and a disconnect() right after a disconnect()
\* leaves the session and the store as the first left them.
C35_DisconnectIsIdempotent ==
    [][ /\ (Disconnected /\ outcome'.op = "disconnect")
            => /\ outcome'.status = "returned"
               /\ address' = NULL
               /\ selectedProvider' = NullObject
               /\ providerListeners' = <<>>
               /\ localStorage' = NoStorage
               /\ fired' = DisconnectNotifications
        /\ (outcome.op = "disconnect" /\ outcome'.op = "disconnect")
            => /\ SessionUnchanged
               /\ UNCHANGED cleanupListeners
               /\ localStorage' = NoStorage
               /\ fired' = DisconnectNotifications ]_vars


\* The step is an event emitted by a provider other than the selected one of
\* a Connected session.
OtherProviderEmits ==
    /\ Connected
    /\ outcome'.status = "emitted"
    /\ outcome'.detail.provider # selectedProvider.provider

\* The step gave a Connected session a new address or a new selected
\* provider.
SessionReassigned ==
    /\ Connected'
    /\ <<address, selectedProvider>>' # <<address, selectedProvider>>

\* C36: only events of the currently selected provider affect the session.
\* An event of another provider, such as the provider of an earlier connect()
\* that no disconnect() followed, leaves address and selectedProvider as they
\* are, does not end the session and fires no notification; and every
\* address of a Connected session comes from an account list of its
\* selected provider: the answer to connect() or an accountsChanged event.
C36_OnlySelectedProviderAffectsSession ==
    [][ /\ OtherProviderEmits
            => /\ UNCHANGED <<address, selectedProvider>>
               /\ fired' = <<>>
        /\ SessionReassigned
            => /\ outcome'.accounts # <<>>
               /\ address' = outcome'.accounts[1]
               /\ outcome'.detail.provider = selectedProvider'.provider ]_vars


\* C37: in every reachable state the handlers of the session on providers
\* are exactly these: none while Disconnected; while Connected one
\* accountsChanged, one chainChanged and one disconnect handler, all on the
\* selected provider, also after connect() calls that overlapped or that
\* found the session Connected.
C37_HandlersMatchSession ==
    /\ Disconnected => providerListeners = <<>>
    /\ Connected
         => /\ \A ev \in ProviderEvents :
                   HandlersOn(providerListeners,
                              selectedProvider.provider, ev) = 1
            /\ \A i \in 1..Len(providerListeners) :
                   providerListeners[i].provider = selectedProvider.provider


\* C38: whenever the session is Connected, the persisted walletProviderUuid
\* is the uuid of the selected provider and the persisted walletAddress is
\* the address getAddress() returns, after any sequence of connect,
\* reconnect and provider events, an accountsChanged event to another
\* account included.
C38_PersistedMatchesSession ==
    Connected
        => localStorage = [walletAddress |-> address,
                           walletProviderUuid |-> selectedProvider.info.uuid]


\* C39: in authenticateWithWallet() the address the challenge was requested
\* for is the address that signs it: whatever accountsChanged or disconnect
\* events arrive while the chain-id request or the challenge request is
\* pending, every eth_signTypedData_v4 request names the address of the
\* query of the challenge request.
C39_RequestedAddressSigns ==
    \A i \in 1..Len(SentBy("eth_signTypedData_v4")) :
        /\ Len(SentBy("GET")) = 1
        /\ SentBy("eth_signTypedData_v4")[i].params[1]
               = SentBy("GET")[1].params.address

====
